---- MODULE Spec2Model ----
(***************************************************************************)
(* REL-MIDI relative interval controller (src/src/MidiController.js) and   *)
(* its software synth (src/unnamed/part_000, useSynth).                    *)
(*                                                                         *)
(* The controller is a React function component.  Each useState value is a *)
(* variable; each useRef is a variable of its own.  The refs that mirror a *)
(* state value (currentNoteRef, padMapRef, ...) are written only by the    *)
(* effects of lines 145-161, which run after a render has committed; the   *)
(* action Render is that commit together with its effects.  Handlers of    *)
(* inbound MIDI messages, of keyboard events and of timers run between     *)
(* renders, so a handler may read a mirror that has not been written yet.  *)
(***************************************************************************)
EXTENDS Integers, Sequences, FiniteSets, TLC

(***************************************************************************)
(* Bounds of the model.                                                    *)
(***************************************************************************)
MaxSteps == 3          \* input events of a performance (Spec)
MaxAnchorSteps == 4    \* note triggers of an anchor walk (SpecAnchor)
MaxPadSteps == 4       \* input events while the pad map is edited (SpecPads)
MaxCcSteps == 5        \* input events while the CC map is edited (SpecCc)
MaxLearnSteps == 3     \* input events of a learn session (SpecLearn)
MaxRapidSteps == 5     \* input events of a rapid-learn session (SpecRapid)
MaxRunSteps == 27      \* rapid-learn start and the pad hits that follow (SpecRapidRun)
MaxOutputSteps == 3    \* input events while the outputs are switched (SpecOutput)
NumKeys == 2           \* keyboard keys that are pressed
NumPads == 3           \* controller notes that arrive on the MIDI input
NumPointerNotes == 2   \* on-screen piano keys that are clicked
NumPadVelocities == 1  \* velocity bytes of inbound note-ons
NumLearnTargets == 2   \* pad-map rows whose buttons are clicked
NumCcNumbers == 2      \* control-change numbers that arrive
NumCcValues == 2       \* control-change values that arrive
NumControls == 2       \* CC-map rows whose buttons are clicked
NumPorts == 1          \* MIDI output ports present
MaxSliderSteps == 1    \* slider moves of a run (SpecVelocity)
MaxVelocitySteps == 2  \* input events of a run with the velocity sliders (SpecVelocity)
MaxScaleSteps == 3     \* input events of a run that sweeps a controller (SpecScale)
MaxDecodeSteps == 2    \* inbound MIDI messages and clicks of a run (SpecDecode)
NumPlugPorts == 5      \* ports that are plugged in and removed (SpecPorts)
MaxPortSteps == 1      \* choices in the output selector of a run (SpecPorts)
MaxMixedSteps == 1     \* opening events of any kind in a long run (SpecHistory)
HistoryFillSteps == 1000 \* events after which a long run is played freely again (SpecHistory)
MaxHistorySteps == 1002  \* input events of a long run (SpecHistory)
MaxFailureSteps == 3   \* input events of a run with a failing output (SpecFailure)

(***************************************************************************)
(* Program constants.                                                      *)
(***************************************************************************)
MinNote == 0
MaxNote == 127
MinVelocity == 1
MaxVelocity == 127
DefaultVelocity == 100
InitialNote == 60
HistoryKeep == 999
OctaveSemitones == 12
NumChannels == 16
NoteOnStatus == 144
NoteOffStatus == 128
MaxCcValue == 127
ControlChangeStatus == 176
MinMultiplier == 1
MaxMultiplier == 200

\* JavaScript's undefined (Map.get of an absent key, a missing property): a
\* value that is neither a note of 0..127 nor an interval of -12..12.
Undefined == -998
\* JavaScript's null in an integer-valued state (midiLearnTarget, lastInterval).
Null == -999
\* JavaScript's null in a string-valued state (selectedOutput, ccLearnTarget).
NullId == "null"

Max(a, b) == IF a >= b THEN a ELSE b
Min(a, b) == IF a <= b THEN a ELSE b

\* Math.round(n / d) for n >= 0, d > 0: the nearest integer, halves upward.
MathRound(n, d) == (2 * n + d) \div (2 * d)

\* The first n elements of a sequence (all of it when it is shorter).
Take(s, n) == SubSeq(s, 1, Min(n, Len(s)))
Range(s) == {s[i] : i \in 1..Len(s)}

(***************************************************************************)
(* KEY_MAP with the labels handleKeyDown derives from e.key.               *)
(***************************************************************************)
KeyLabels == <<"A", ";", "SPACE", "S", "D", "F", "J", "K", "L">>
KEY_MAP ==
  [l \in Range(KeyLabels) |->
     CASE l = "A" -> -4 [] l = "S" -> -3 [] l = "D" -> -2 [] l = "F" -> -1
       [] l = "SPACE" -> 0
       [] l = "J" -> 1 [] l = "K" -> 2 [] l = "L" -> 3 [] l = ";" -> 4]
DEFAULT_VELOCITIES == [l \in Range(KeyLabels) |-> DefaultVelocity]

DEFAULT_PAD_MAP ==
  (36 :> -12) @@ (37 :> -7) @@ (38 :> -5) @@ (39 :> -4) @@ (40 :> -3) @@
  (41 :> -2) @@ (42 :> -1) @@ (43 :> 0) @@ (44 :> 1) @@ (45 :> 2) @@
  (46 :> 3) @@ (47 :> 4) @@ (48 :> 5) @@ (49 :> 7) @@ (50 :> 12)

ASSIGNABLE_ACTIONS == [i \in 1..25 |-> i - 13]

\* SYNTH_CONTROLS: min, max and step = stepNum / stepDen of each control.
SYNTH_CONTROLS ==
  << [id |-> "cutoff",       min |-> 20, max |-> 20000, stepNum |-> 10, stepDen |-> 1],
     [id |-> "resonance",    min |-> 0,  max |-> 20,    stepNum |-> 1,  stepDen |-> 10],
     [id |-> "attack",       min |-> 0,  max |-> 2,     stepNum |-> 1,  stepDen |-> 100],
     [id |-> "decay",        min |-> 0,  max |-> 2,     stepNum |-> 1,  stepDen |-> 100],
     [id |-> "sustain",      min |-> 0,  max |-> 1,     stepNum |-> 1,  stepDen |-> 100],
     [id |-> "release",      min |-> 0,  max |-> 5,     stepNum |-> 1,  stepDen |-> 100],
     [id |-> "masterVolume", min |-> 0,  max |-> 1,     stepNum |-> 1,  stepDen |-> 100] >>
ControlIds == {SYNTH_CONTROLS[i].id : i \in 1..Len(SYNTH_CONTROLS)}
\* A plain object with no property.
EmptyObject == [k \in {} |-> 0]
DEFAULT_CC_MAP == EmptyObject

(***************************************************************************)
(* Inputs of the model, cut from fixed lists by the bounds.                *)
(***************************************************************************)
Keys == Range(Take(KeyLabels, NumKeys))
PadNotes == Range(Take(<<50, 43, 51, 36, 37, 52>>, NumPads))
PadVelocities == Range(Take(<<90, 127, 1>>, NumPadVelocities))
PointerNotes == Range(Take(<<96, 36, 60, 48>>, NumPointerNotes))
LearnTargets == Range(Take(<<12, -12, 3, 0>>, NumLearnTargets))
CcNumbers == Range(Take(<<7, 74, 1>>, NumCcNumbers))
CcValues == Range(Take(<<64, 127, 0>>, NumCcValues))
LearnControls == Range(Take(<<"cutoff", "resonance", "masterVolume">>, NumControls))

\* The token handleMidiInput builds for a pad: `__pad_${note}__`.
PadLabel(note) ==
  CASE note = 36 -> "__pad_36__" [] note = 37 -> "__pad_37__"
    [] note = 43 -> "__pad_43__" [] note = 50 -> "__pad_50__"
    [] note = 51 -> "__pad_51__" [] note = 52 -> "__pad_52__"
MouseLabel == "__mouse__"

(***************************************************************************)
(* A JavaScript Map / plain object as a sequence of entries in insertion   *)
(* order.                                                                  *)
(***************************************************************************)
MapHas(m, k) == \E i \in 1..Len(m) : m[i].key = k
MapGet(m, k) ==
  IF MapHas(m, k) THEN m[CHOOSE i \in 1..Len(m) : m[i].key = k].val ELSE Undefined
MapClear(m, k) == << >>
MapDelete(m, k) == SelectSeq(m, LAMBDA e : e.key # k)
MapSet(m, k, v) ==
  IF MapHas(m, k)
    THEN [i \in 1..Len(m) |-> IF m[i].key = k THEN [key |-> k, val |-> v] ELSE m[i]]
    ELSE Append(m, [key |-> k, val |-> v])
MapValues(m) == [i \in 1..Len(m) |-> m[i].val]
MapKeys(m) == {m[i].key : i \in 1..Len(m)}

\* Array.from(new Set(s)): the first occurrence of each element, in order.
RECURSIVE ArrayFromSet(_)
ArrayFromSet(s) ==
  IF s = << >> THEN << >>
  ELSE LET init == ArrayFromSet(SubSeq(s, 1, Len(s) - 1))
           last == s[Len(s)]
       IN IF last \in Range(init) THEN init ELSE Append(init, last)

VARIABLES
  \* note state
  currentNote, currentNoteRef, heldNotesRef, activeNotes, noteHistory,
  pressedKeys, lastInterval,
  \* mapping tables and learn sessions
  padMap, padMapRef, midiLearnTarget, midiLearnTargetRef,
  rapidLearnActive, rapidLearnActiveRef,
  ccMap, ccMapRef, ccLearnTarget, ccLearnTargetRef, lastMidiIn,
  \* output configuration
  synthMuted, synthMutedRef, midiMuted, midiMutedRef,
  midiChannel, midiChannelRef, selectedOutput, selectedOutputRef,
  midiOutputs, midiAccessRef, ports,
  \* velocities
  keyVelocities, keyVelocitiesRef, velocityMultiplier, velocityMultiplierRef,
  usePadVelocity, usePadVelocityRef,
  \* synth collaborator
  activeOscillators, settings,
  \* pending octave-jump releases, what the last handler emitted, which
  \* handler ran last, and the number of handled input events
  timers, out, lastOp, steps,
  \* the notes the connected instruments are sounding
  sounding

noteVars == <<currentNote, currentNoteRef, heldNotesRef, activeNotes, noteHistory,
              pressedKeys, lastInterval>>
padVars == <<padMap, padMapRef, midiLearnTarget, midiLearnTargetRef,
             rapidLearnActive, rapidLearnActiveRef, lastMidiIn>>
ccVars == <<ccMap, ccMapRef, ccLearnTarget, ccLearnTargetRef>>
muteVars == <<synthMuted, synthMutedRef, midiMuted, midiMutedRef>>
deviceVars == <<midiChannel, midiChannelRef, selectedOutput, selectedOutputRef,
                midiOutputs, midiAccessRef, ports>>
velVars == <<keyVelocities, keyVelocitiesRef, velocityMultiplier,
             velocityMultiplierRef, usePadVelocity, usePadVelocityRef>>
synthVars == <<activeOscillators, settings>>
vars == <<noteVars, padVars, ccVars, muteVars, deviceVars, velVars, synthVars,
          timers, out, lastOp, steps, sounding>>

(***************************************************************************)
(* Plain objects keyed by a controller note or a CC number (padMap, ccMap) *)
(* are functions; a missing property reads as Undefined.                   *)
(***************************************************************************)
PadLookup(m, note) == IF note \in DOMAIN m THEN m[note] ELSE Undefined
CcLookup(m, cc) == IF cc \in DOMAIN m THEN m[cc] ELSE NullId
ObjectDelete(m, k) == [x \in DOMAIN m \ {k} |-> m[x]]

(***************************************************************************)
(* MIDI output ports: an id and a name, the name as its characters.        *)
(***************************************************************************)
PortPool ==
  << [id |-> "out-b", name |-> <<"2", "-", " ", "M", "P", "D">>],
     [id |-> "out-a", name |-> <<"1", " ", "-", " ", "M", "P", "D">>],
     [id |-> "out-c", name |-> <<"S", "y", "n", "t", "h">>],
     [id |-> "out-d", name |-> <<"1", ":", "B", "u", "s">>],
     [id |-> "out-e", name |-> <<"2", " ", ":", " ", "A", "u", "x">>],
     [id |-> "out-f", name |-> <<"1", "2", " ", "-", " ", "U", "S", "B">>] >>
PortLists == {Take(PortPool, n) : n \in 0..NumPorts}
PortIds(list) == {list[i].id : i \in 1..Len(list)}

\* The regular expression /^<digit>\s*[-:]/ of pickPreferredOutput.
PortPrefix(name, digit) ==
  /\ Len(name) >= 2
  /\ name[1] = digit
  /\ \E j \in 2..Len(name) :
       /\ name[j] \in {"-", ":"}
       /\ \A i \in 2..(j - 1) : name[i] = " "

\* Array.prototype.find: the first element whose index is among the hits of
\* the test, or NullId when the test has no hit.
FirstId(outputs, hits) ==
  IF hits = {} THEN NullId
  ELSE outputs[CHOOSE i \in hits : \A j \in hits : i <= j].id

\* A preference that would always take the first device.
pickFirstOutput(outputs) == IF Len(outputs) = 0 THEN NullId ELSE outputs[1].id

pickPreferredOutput(outputs) ==
  IF Len(outputs) = 0 THEN NullId
  ELSE LET indexes == 1..Len(outputs)
           portOne == FirstId(outputs,
                        {i \in indexes : PortPrefix(outputs[i].name, "1")})
           notPortTwo == FirstId(outputs,
                           {i \in indexes : ~PortPrefix(outputs[i].name, "2")})
       IN IF portOne # NullId THEN portOne
          ELSE IF notPortTwo # NullId THEN notPortTwo
          ELSE outputs[1].id

\* A lookup that would hand out a port without asking the access object.
getMidiOutputUnchecked == PortPool[1].id

getMidiOutput ==
  IF ~midiAccessRef THEN NullId
  ELSE IF selectedOutputRef = NullId THEN NullId
  ELSE IF selectedOutputRef \in PortIds(ports) THEN selectedOutputRef
  ELSE NullId

(***************************************************************************)
(* Note resolution, velocity and the output fan-out.                       *)
(***************************************************************************)
ResolveNoUpperClamp(anchor, interval) == Max(MinNote, anchor + interval)
Resolve(anchor, interval) == Max(MinNote, Min(MaxNote, anchor + interval))

\* A velocity without the lower clamp.
VelocityNoLowerClamp(base, multiplier) ==
  Min(MaxVelocity, MathRound(base * multiplier, 100))
Velocity(base, multiplier) ==
  Max(MinVelocity, Min(MaxVelocity, MathRound(base * multiplier, 100)))

SynthCall(fn, note, vel) ==
  [dev |-> "synth", fn |-> fn, status |-> 0, note |-> note, vel |-> vel]
MidiSend(port, status, note, vel) ==
  [dev |-> port, fn |-> "send", status |-> status, note |-> note, vel |-> vel]

\* What the instruments behind the ports sound after the messages of o have
\* been sent in order: a note-on (0x9n, velocity > 0) starts the note on channel
\* n + 1 of its port, a note-off (0x8n) or a note-on of velocity 0 ends it.
RECURSIVE Sounded(_, _)
Sounded(s, o) ==
  IF o = << >> THEN s
  ELSE LET e == Head(o)
           on == [dev |-> e.dev, channel |-> e.status - NoteOnStatus + 1, note |-> e.note]
           off == [dev |-> e.dev, channel |-> e.status - NoteOffStatus + 1, note |-> e.note]
       IN Sounded(IF e.fn # "send" THEN s
                  ELSE IF e.status \in NoteOnStatus..(NoteOnStatus + 15)
                    THEN (IF e.vel > 0 THEN s \cup {on} ELSE s \ {on})
                  ELSE IF e.status \in NoteOffStatus..(NoteOffStatus + 15)
                    THEN s \ {off}
                  ELSE s,
                  Tail(o))

\* A fan-out that would treat ALL (0) as the first channel.
MidiFanOutFirstChannel(status, note, vel) ==
  LET output == getMidiOutput
  IN IF output # NullId /\ ~midiMutedRef
       THEN <<MidiSend(output, status + Max(0, midiChannelRef - 1), note, vel)>>
       ELSE << >>
\* The MIDI half of noteOn / noteOff: one send, or one per channel for ALL (0).
MidiFanOut(status, note, vel) ==
  LET output == getMidiOutput
  IN IF output # NullId /\ ~midiMutedRef
       THEN IF midiChannelRef = 0
              THEN [i \in 1..NumChannels |-> MidiSend(output, status + (i - 1), note, vel)]
              ELSE <<MidiSend(output, status + (midiChannelRef - 1), note, vel)>>
       ELSE << >>

\* A note-on that the synth mute would silence on both paths.
EmitOnMuteAll(note, vel) ==
  IF ~synthMutedRef
    THEN <<SynthCall("playNote", note, vel)>> \o MidiFanOut(NoteOnStatus, note, vel)
    ELSE << >>
\* What a note-on with an already computed velocity emits, synth first.
EmitOn(note, vel) ==
  (IF ~synthMutedRef THEN <<SynthCall("playNote", note, vel)>> ELSE << >>)
    \o MidiFanOut(NoteOnStatus, note, vel)

\* A base velocity that would ignore the key's own setting.
KeyVelocityFixed(keyLabel) == DefaultVelocity
KeyVelocity(keyLabel) ==
  IF keyLabel # NullId
    THEN (IF keyVelocitiesRef[keyLabel] # 0 THEN keyVelocitiesRef[keyLabel]
          ELSE DefaultVelocity)
    ELSE DefaultVelocity

noteOn(note, keyLabel) ==
  EmitOn(note, Velocity(KeyVelocity(keyLabel), velocityMultiplierRef))

\* A note-off that would be sent with the note-on status.
noteOffAsNoteOn(note) ==
  (IF ~synthMutedRef THEN <<SynthCall("stopNote", note, 0)>> ELSE << >>)
    \o MidiFanOut(NoteOnStatus, note, 0)

noteOff(note) ==
  (IF ~synthMutedRef THEN <<SynthCall("stopNote", note, 0)>> ELSE << >>)
    \o MidiFanOut(NoteOffStatus, note, 0)

\* A press by a source that already holds a note releases it first
\* (lines 451-456, 342-347, 500-505): the note-off precedes the press's events.
ReleaseFirstLate(released, prevNote, onEvents) ==
  onEvents \o (IF released THEN noteOff(prevNote) ELSE << >>)
ReleaseFirst(released, prevNote, onEvents) ==
  (IF released THEN noteOff(prevNote) ELSE << >>) \o onEvents

\* A release emits the note-off of the held note, if any (lines 475-479, 375-379).
ReleaseHeldUnguarded(heldNote) == noteOff(heldNote)
\* A release that would wait for the last holder of the note.
ReleaseHeldCounted(heldNote) ==
  IF heldNote # Undefined
       /\ Cardinality({i \in 1..Len(heldNotesRef) : heldNotesRef[i].val = heldNote}) <= 1
    THEN noteOff(heldNote) ELSE << >>
ReleaseHeld(heldNote) == IF heldNote # Undefined THEN noteOff(heldNote) ELSE << >>

\* useSynth: activeOscillators after playNote / stopNote, when not muted.  A
\* voice is the { osc, gain } pair registered under its note; id tells the
\* pairs apart (the event that created them).
Voice(note) == [note |-> note, id |-> steps + 1]
\* A playNote that would register the new voice beside the one already there.
playNoteLayered(osc, note) == IF synthMutedRef THEN osc ELSE osc \cup {Voice(note)}
\* Lines 85-89: a voice registered for the note is stopped, then the new one
\* is registered.
playNote(osc, note) ==
  IF synthMutedRef THEN osc ELSE {v \in osc : v.note # note} \cup {Voice(note)}
\* Lines 93-112: nothing for a note with no voice; else the voice is released
\* and its entry deleted.
stopNote(osc, note) ==
  IF synthMutedRef THEN osc ELSE {v \in osc : v.note # note}

\* A history that would put the newest entry first.
HistoryPrepend(history, note, time) ==
  <<[note |-> note, time |-> time]>>
    \o SubSeq(history, Max(1, Len(history) - HistoryKeep + 1), Len(history))
\* A history update that would trim the list and record nothing.
HistoryTrimOnly(history, note, time) ==
  SubSeq(history, Max(1, Len(history) - HistoryKeep + 1), Len(history))
\* prev => [...prev.slice(-999), { note, time }]
HistoryAppend(history, note, time) ==
  Append(SubSeq(history, Max(1, Len(history) - HistoryKeep + 1), Len(history)),
         [note |-> note, time |-> time])

\* Array.from(new Set(heldNotesRef.current.values()))
ActiveNotesWithDuplicates(held) == MapValues(held)
ActiveNotesOf(held) == ArrayFromSet(MapValues(held))

Op(op, key, note) == [op |-> op, key |-> key, note |-> note]

InitialSettings ==
  [c \in ControlIds |->
     CASE c = "cutoff" -> 2000 [] c = "resonance" -> 10 [] c = "attack" -> 1
       [] c = "decay" -> 10 [] c = "sustain" -> 50 [] c = "release" -> 30
       [] c = "masterVolume" -> 50]

Init ==
  /\ currentNote = InitialNote
  /\ currentNoteRef = InitialNote
  /\ heldNotesRef = << >>
  /\ activeNotes = << >>
  /\ noteHistory = <<[note |-> InitialNote, time |-> 0]>>
  /\ pressedKeys = {}
  /\ lastInterval = Null
  /\ padMap = DEFAULT_PAD_MAP
  /\ padMapRef = DEFAULT_PAD_MAP
  /\ midiLearnTarget = Null
  /\ midiLearnTargetRef = Null
  /\ rapidLearnActive = FALSE
  /\ rapidLearnActiveRef = FALSE
  /\ ccMap = DEFAULT_CC_MAP
  /\ ccMapRef = DEFAULT_CC_MAP
  /\ ccLearnTarget = NullId
  /\ ccLearnTargetRef = NullId
  /\ lastMidiIn = [note |-> Null, vel |-> Null]
  /\ synthMuted = FALSE
  /\ synthMutedRef = FALSE
  /\ midiMuted = FALSE
  /\ midiMutedRef = FALSE
  /\ midiChannel = 1
  /\ midiChannelRef = 1
  /\ selectedOutput = NullId
  /\ selectedOutputRef = NullId
  /\ midiOutputs = << >>
  /\ midiAccessRef = FALSE
  /\ ports \in PortLists
  /\ keyVelocities = DEFAULT_VELOCITIES
  /\ keyVelocitiesRef = DEFAULT_VELOCITIES
  /\ velocityMultiplier = 100
  /\ velocityMultiplierRef = 100
  /\ usePadVelocity = TRUE
  /\ usePadVelocityRef = TRUE
  /\ activeOscillators = {}
  /\ settings = InitialSettings
  /\ timers = << >>
  /\ out = << >>
  /\ lastOp = Op("init", NullId, Null)
  /\ steps = 0
  /\ sounding = {}

(***************************************************************************)
(* A render commits and its effects (lines 145-161) copy every mirrored    *)
(* state into its ref.                                                     *)
(***************************************************************************)
Render ==
  /\ <<currentNoteRef, padMapRef, midiLearnTargetRef, rapidLearnActiveRef,
       ccMapRef, ccLearnTargetRef, synthMutedRef, midiMutedRef, midiChannelRef,
       selectedOutputRef, keyVelocitiesRef, velocityMultiplierRef,
       usePadVelocityRef>>
       # <<currentNote, padMap, midiLearnTarget, rapidLearnActive, ccMap,
           ccLearnTarget, synthMuted, midiMuted, midiChannel, selectedOutput,
           keyVelocities, velocityMultiplier, usePadVelocity>>
  /\ currentNoteRef' = currentNote
  /\ padMapRef' = padMap
  /\ midiLearnTargetRef' = midiLearnTarget
  /\ rapidLearnActiveRef' = rapidLearnActive
  /\ ccMapRef' = ccMap
  /\ ccLearnTargetRef' = ccLearnTarget
  /\ synthMutedRef' = synthMuted
  /\ midiMutedRef' = midiMuted
  /\ midiChannelRef' = midiChannel
  /\ selectedOutputRef' = selectedOutput
  /\ keyVelocitiesRef' = keyVelocities
  /\ velocityMultiplierRef' = velocityMultiplier
  /\ usePadVelocityRef' = usePadVelocity
  /\ UNCHANGED <<currentNote, heldNotesRef, activeNotes, noteHistory, pressedKeys,
                 lastInterval, padMap, midiLearnTarget, rapidLearnActive, ccMap,
                 ccLearnTarget, lastMidiIn, synthMuted, midiMuted, midiChannel,
                 selectedOutput, midiOutputs, midiAccessRef, ports, keyVelocities,
                 velocityMultiplier, usePadVelocity, synthVars, timers, out,
                 lastOp, steps, sounding>>

(***************************************************************************)
(* navigator.requestMIDIAccess() resolves (lines 177-199).                 *)
(***************************************************************************)
MidiAccessGranted ==
  /\ ~midiAccessRef
  /\ midiAccessRef' = TRUE
  /\ midiOutputs' = ports
  /\ selectedOutput' =
       IF Len(ports) > 0 THEN pickPreferredOutput(ports) ELSE selectedOutput
  /\ UNCHANGED <<noteVars, padVars, ccVars, muteVars, midiChannel, midiChannelRef,
                 selectedOutputRef, ports, velVars, synthVars, timers, out,
                 lastOp, steps, sounding>>

(***************************************************************************)
(* Keyboard handlers (lines 444-489).                                      *)
(***************************************************************************)
handleKeyDown(k) ==
  /\ LET prevNote == MapGet(heldNotesRef, k)
         released == prevNote # Undefined
         interval == KEY_MAP[k]
         newNote == Resolve(currentNoteRef, interval)
         held == MapSet(IF released THEN MapDelete(heldNotesRef, k) ELSE heldNotesRef,
                        k, newNote)
         oscOff == IF released THEN stopNote(activeOscillators, prevNote)
                   ELSE activeOscillators
     IN /\ heldNotesRef' = held
        /\ pressedKeys' = pressedKeys \cup {k}
        /\ lastInterval' = interval
        /\ activeNotes' = ActiveNotesOf(held)
        /\ currentNote' = newNote
        /\ noteHistory' = HistoryAppend(noteHistory, newNote, steps + 1)
        /\ out' = ReleaseFirst(released, prevNote, noteOn(newNote, k))
        /\ activeOscillators' = playNote(oscOff, newNote)
        /\ lastOp' = Op("keydown", k, newNote)
  /\ steps' = steps + 1
  /\ sounding' = Sounded(sounding, out')
  /\ UNCHANGED <<currentNoteRef, padVars, ccVars, muteVars, deviceVars, velVars,
                 settings, timers>>

handleKeyUp(k) ==
  /\ LET heldNote == MapGet(heldNotesRef, k)
         released == heldNote # Undefined
         held == IF released THEN MapDelete(heldNotesRef, k) ELSE heldNotesRef
     IN /\ heldNotesRef' = held
        /\ out' = ReleaseHeld(heldNote)
        /\ activeOscillators' =
             IF released THEN stopNote(activeOscillators, heldNote)
             ELSE activeOscillators
        /\ pressedKeys' = pressedKeys \ {k}
        /\ activeNotes' = ActiveNotesOf(held)
        /\ lastOp' = Op("keyup", k, heldNote)
  /\ steps' = steps + 1
  /\ sounding' = Sounded(sounding, out')
  /\ UNCHANGED <<currentNote, currentNoteRef, noteHistory, lastInterval, padVars,
                 ccVars, muteVars, deviceVars, velVars, settings, timers>>

(***************************************************************************)
(* Inbound pad messages (lines 299-382).  The listener is attached only    *)
(* once MIDI access has been granted and an input is selected.             *)
(***************************************************************************)
\* The updater of setPadMap in learn mode (lines 310-319).
LearnAssignNoEvict(prev, note, targetInterval) ==
  [k \in DOMAIN prev \cup {note} |-> IF k = note THEN targetInterval ELSE prev[k]]
LearnAssign(prev, note, targetInterval) ==
  LET kept == {k \in DOMAIN prev : prev[k] # targetInterval}
  IN [k \in kept \cup {note} |-> IF k = note THEN targetInterval ELSE prev[k]]

\* ASSIGNABLE_ACTIONS.findIndex(a => a.value === targetInterval), from 1; 0 if none.
FindAction(targetInterval) ==
  IF \E i \in 1..Len(ASSIGNABLE_ACTIONS) : ASSIGNABLE_ACTIONS[i] = targetInterval
    THEN CHOOSE i \in 1..Len(ASSIGNABLE_ACTIONS) : ASSIGNABLE_ACTIONS[i] = targetInterval
    ELSE 0

\* A capture that would go on to play the pad at its new interval.
PadLearnPlays(note, velocity) ==
  LET targetInterval == midiLearnTargetRef
      newNote == Resolve(currentNoteRef, targetInterval)
  IN /\ padMap' = LearnAssign(padMap, note, targetInterval)
     /\ midiLearnTarget' = Null
     /\ rapidLearnActive' = FALSE
     /\ currentNote' = newNote
     /\ noteHistory' = HistoryAppend(noteHistory, newNote, steps + 1)
     /\ out' = noteOn(newNote, NullId)
     /\ lastOp' = Op("padlearn", PadLabel(note), note)
     /\ UNCHANGED <<currentNoteRef, heldNotesRef, activeNotes, pressedKeys,
                    lastInterval, activeOscillators>>

\* Lines 307-335: the note-on is captured as a learn assignment.
PadLearn(note, velocity) ==
  LET targetInterval == midiLearnTargetRef
      idx == FindAction(targetInterval)
  IN /\ padMap' = LearnAssign(padMap, note, targetInterval)
     /\ IF rapidLearnActiveRef
          THEN IF idx >= 1 /\ idx < Len(ASSIGNABLE_ACTIONS)
                 THEN /\ midiLearnTarget' = ASSIGNABLE_ACTIONS[idx + 1]
                      /\ UNCHANGED rapidLearnActive
                 ELSE /\ midiLearnTarget' = Null
                      /\ rapidLearnActive' = FALSE
          ELSE /\ midiLearnTarget' = Null
               /\ UNCHANGED rapidLearnActive
     /\ out' = << >>
     /\ lastOp' = Op("padlearn", PadLabel(note), note)
     /\ UNCHANGED <<noteVars, activeOscillators>>

\* Lines 341-372: a mapped pad is pressed.
PadPress(note, velocity, interval) ==
  LET padLabel == PadLabel(note)
      prevNote == MapGet(heldNotesRef, padLabel)
      released == prevNote # Undefined
      newNote == Resolve(currentNoteRef, interval)
      held == MapSet(IF released THEN MapDelete(heldNotesRef, padLabel)
                     ELSE heldNotesRef, padLabel, newNote)
      oscOff == IF released THEN stopNote(activeOscillators, prevNote)
                ELSE activeOscillators
  IN /\ heldNotesRef' = held
     /\ lastInterval' = interval
     /\ activeNotes' = ActiveNotesOf(held)
     /\ currentNote' = newNote
     /\ noteHistory' = HistoryAppend(noteHistory, newNote, steps + 1)
     /\ out' = ReleaseFirst(released, prevNote,
                             IF usePadVelocityRef
                               THEN EmitOn(newNote,
                                           Velocity(velocity, velocityMultiplierRef))
                               ELSE noteOn(newNote, NullId))
     /\ activeOscillators' = playNote(oscOff, newNote)
     /\ lastOp' = Op("padon", padLabel, newNote)
     /\ UNCHANGED <<currentNoteRef, pressedKeys, padMap, midiLearnTarget,
                    rapidLearnActive>>

\* Lines 373-381: a mapped pad is released.
\* A pad release that would disarm the pad-learn target.
PadReleaseDisarms(note) ==
  LET padLabel == PadLabel(note)
      heldNote == MapGet(heldNotesRef, padLabel)
      released == heldNote # Undefined
      held == IF released THEN MapDelete(heldNotesRef, padLabel) ELSE heldNotesRef
  IN /\ heldNotesRef' = held
     /\ out' = ReleaseHeld(heldNote)
     /\ activeOscillators' =
          IF released THEN stopNote(activeOscillators, heldNote)
          ELSE activeOscillators
     /\ activeNotes' = ActiveNotesOf(held)
     /\ midiLearnTarget' = Null
     /\ lastOp' = Op("padoff", padLabel, heldNote)
     /\ UNCHANGED <<currentNote, currentNoteRef, noteHistory, pressedKeys,
                    lastInterval, padMap, rapidLearnActive>>

PadRelease(note) ==
  LET padLabel == PadLabel(note)
      heldNote == MapGet(heldNotesRef, padLabel)
      released == heldNote # Undefined
      held == IF released THEN MapDelete(heldNotesRef, padLabel) ELSE heldNotesRef
  IN /\ heldNotesRef' = held
     /\ out' = ReleaseHeld(heldNote)
     /\ activeOscillators' =
          IF released THEN stopNote(activeOscillators, heldNote)
          ELSE activeOscillators
     /\ activeNotes' = ActiveNotesOf(held)
     /\ lastOp' = Op("padoff", padLabel, heldNote)
     /\ UNCHANGED <<currentNote, currentNoteRef, noteHistory, pressedKeys,
                    lastInterval, padMap, midiLearnTarget, rapidLearnActive>>

\* An unmapped pad that would play at interval 0.
PadIgnoredPlays(note, isNoteOn) ==
  /\ out' = IF isNoteOn THEN noteOn(currentNoteRef, NullId) ELSE << >>
  /\ noteHistory' = HistoryAppend(noteHistory, currentNoteRef, steps + 1)
  /\ lastOp' = Op(IF isNoteOn THEN "padon-unmapped" ELSE "padoff-unmapped",
                  PadLabel(note), Undefined)
  /\ UNCHANGED <<currentNote, currentNoteRef, heldNotesRef, activeNotes,
                 pressedKeys, lastInterval, activeOscillators, padMap,
                 midiLearnTarget, rapidLearnActive>>

\* Line 337: the controller note has no mapping.
PadIgnored(note, isNoteOn) ==
  /\ out' = << >>
  /\ lastOp' = Op(IF isNoteOn THEN "padon-unmapped" ELSE "padoff-unmapped",
                  PadLabel(note), Undefined)
  /\ UNCHANGED <<noteVars, activeOscillators, padMap, midiLearnTarget,
                 rapidLearnActive>>

handleMidiInput(note, velocity, isNoteOn) ==
  /\ midiAccessRef
  /\ LET mapping == PadLookup(padMapRef, note)
     IN /\ lastMidiIn' = IF isNoteOn THEN [note |-> note, vel |-> velocity]
                         ELSE lastMidiIn
        /\ IF isNoteOn /\ midiLearnTargetRef # Null
             THEN PadLearn(note, velocity)
             ELSE IF mapping = Undefined
                    THEN PadIgnored(note, isNoteOn)
                    ELSE IF isNoteOn
                           THEN PadPress(note, velocity, mapping)
                           ELSE PadRelease(note)
  /\ steps' = steps + 1
  /\ sounding' = Sounded(sounding, out')
  /\ UNCHANGED <<padMapRef, midiLearnTargetRef, rapidLearnActiveRef, ccVars,
                 muteVars, deviceVars, velVars, settings, timers>>

(***************************************************************************)
(* On-screen piano (lines 499-522) and octave buttons (lines 524-532).     *)
(* Both are closures of the last render: their currentNote is the value    *)
(* that render committed, which is the value its effect wrote to           *)
(* currentNoteRef.                                                         *)
(***************************************************************************)
handleVisualKeyClick(note) ==
  /\ LET prevMouse == MapGet(heldNotesRef, MouseLabel)
         released == prevMouse # Undefined
         interval == note - currentNoteRef
         held == MapSet(IF released THEN MapDelete(heldNotesRef, MouseLabel)
                        ELSE heldNotesRef, MouseLabel, note)
         oscOff == IF released THEN stopNote(activeOscillators, prevMouse)
                   ELSE activeOscillators
     IN /\ lastInterval' = interval
        /\ currentNote' = note
        /\ heldNotesRef' = held
        /\ activeNotes' = ActiveNotesOf(held)
        /\ noteHistory' = HistoryAppend(noteHistory, note, steps + 1)
        /\ out' = ReleaseFirst(released, prevMouse, noteOn(note, NullId))
        /\ activeOscillators' = playNote(oscOff, note)
        /\ lastOp' = Op("click", MouseLabel, note)
  /\ steps' = steps + 1
  /\ sounding' = Sounded(sounding, out')
  /\ UNCHANGED <<currentNoteRef, pressedKeys, padVars, ccVars, muteVars,
                 deviceVars, velVars, settings, timers>>

handleVisualKeyRelease(note) ==
  /\ LET mouseNote == MapGet(heldNotesRef, MouseLabel)
         held == IF mouseNote = note THEN MapDelete(heldNotesRef, MouseLabel)
                 ELSE heldNotesRef
     IN /\ heldNotesRef' = held
        /\ out' = noteOff(note)
        /\ activeOscillators' = stopNote(activeOscillators, note)
        /\ activeNotes' = ActiveNotesOf(held)
        /\ lastOp' = Op("pointer-release", MouseLabel, note)
  /\ steps' = steps + 1
  /\ sounding' = Sounded(sounding, out')
  /\ UNCHANGED <<currentNote, currentNoteRef, noteHistory, pressedKeys,
                 lastInterval, padVars, ccVars, muteVars, deviceVars, velVars,
                 settings, timers>>

jumpOctave(direction) ==
  /\ LET newNote == Resolve(currentNoteRef, direction * OctaveSemitones)
     IN /\ currentNote' = newNote
        /\ lastInterval' = direction * OctaveSemitones
        /\ noteHistory' = HistoryAppend(noteHistory, newNote, steps + 1)
        /\ out' = noteOn(newNote, NullId)
        /\ activeOscillators' = playNote(activeOscillators, newNote)
        /\ timers' = Append(timers, newNote)
        /\ lastOp' = Op("jump", NullId, newNote)
  /\ steps' = steps + 1
  /\ sounding' = Sounded(sounding, out')
  /\ UNCHANGED <<currentNoteRef, heldNotesRef, activeNotes, pressedKeys, padVars,
                 ccVars, muteVars, deviceVars, velVars, settings>>

\* A deferred release that would spare a note some source holds.
OctaveReleaseSparesHeld ==
  /\ timers # << >>
  /\ out' = IF \E i \in 1..Len(heldNotesRef) : heldNotesRef[i].val = Head(timers)
              THEN << >> ELSE noteOff(Head(timers))
  /\ activeOscillators' =
       IF \E i \in 1..Len(heldNotesRef) : heldNotesRef[i].val = Head(timers)
         THEN activeOscillators ELSE stopNote(activeOscillators, Head(timers))
  /\ timers' = Tail(timers)
  /\ lastOp' = Op("jump-release", NullId, Head(timers))
  /\ UNCHANGED <<noteVars, padVars, ccVars, muteVars, deviceVars, velVars,
                 settings, steps>>
  /\ sounding' = Sounded(sounding, out')

\* The deferred callback of line 531 fires: noteOff(newNote) of the oldest jump.
OctaveReleaseFires ==
  /\ timers # << >>
  /\ out' = noteOff(Head(timers))
  /\ activeOscillators' = stopNote(activeOscillators, Head(timers))
  /\ timers' = Tail(timers)
  /\ lastOp' = Op("jump-release", NullId, Head(timers))
  /\ UNCHANGED <<noteVars, padVars, ccVars, muteVars, deviceVars, velVars,
                 settings, steps>>
  /\ sounding' = Sounded(sounding, out')

(***************************************************************************)
(* Inbound control-change messages (lines 385-412).                        *)
(***************************************************************************)
\* The updater of setCcMap in CC-learn mode (lines 389-397).
CcLearnAssignNoEvict(prev, cc, targetControl) ==
  [k \in DOMAIN prev \cup {cc} |-> IF k = cc THEN targetControl ELSE prev[k]]
CcLearnAssign(prev, cc, targetControl) ==
  LET kept == {k \in DOMAIN prev : prev[k] # targetControl}
  IN [k \in kept \cup {cc} |-> IF k = cc THEN targetControl ELSE prev[k]]

ControlOf(controlId) ==
  SYNTH_CONTROLS[CHOOSE i \in 1..Len(SYNTH_CONTROLS) : SYNTH_CONTROLS[i].id = controlId]

\* A scaling that would truncate to the step below instead of rounding.
CcScaleTruncated(ctrl, value) ==
  LET steps_ == ((ctrl.min * MaxCcValue + value * (ctrl.max - ctrl.min)) * ctrl.stepDen)
                  \div (MaxCcValue * ctrl.stepNum)
  IN Max(ctrl.min * ctrl.stepDen, Min(ctrl.max * ctrl.stepDen, steps_ * ctrl.stepNum))
\* Lines 408-411, in units of 1 / ctrl.stepDen.
CcScale(ctrl, value) ==
  LET steps_ == MathRound((ctrl.min * MaxCcValue + value * (ctrl.max - ctrl.min))
                            * ctrl.stepDen,
                          MaxCcValue * ctrl.stepNum)
      rounded == steps_ * ctrl.stepNum
  IN Max(ctrl.min * ctrl.stepDen, Min(ctrl.max * ctrl.stepDen, rounded))

\* A handler whose mapped control-change would also sound the anchor.
handleCcInputPlays(cc, value) ==
  /\ midiAccessRef
  /\ IF ccLearnTargetRef # NullId
       THEN /\ ccMap' = CcLearnAssign(ccMap, cc, ccLearnTargetRef)
            /\ ccLearnTarget' = NullId
            /\ UNCHANGED settings
            /\ out' = << >>
            /\ lastOp' = Op("cclearn", ccLearnTargetRef, cc)
       ELSE LET controlId == CcLookup(ccMapRef, cc)
            IN /\ UNCHANGED <<ccMap, ccLearnTarget>>
               /\ IF controlId = NullId \/ controlId \notin ControlIds
                    THEN /\ UNCHANGED settings
                         /\ out' = << >>
                         /\ lastOp' = Op("cc-unmapped", NullId, cc)
                    ELSE /\ settings' =
                              [settings EXCEPT
                                 ![controlId] = CcScale(ControlOf(controlId), value)]
                         /\ out' = noteOn(currentNoteRef, NullId)
                         /\ lastOp' = Op("cc", controlId, cc)
  /\ steps' = steps + 1
  /\ sounding' = Sounded(sounding, out')
  /\ UNCHANGED <<noteVars, padVars, ccMapRef, ccLearnTargetRef, muteVars,
                 deviceVars, velVars, activeOscillators, timers>>

handleCcInput(cc, value) ==
  /\ midiAccessRef
  /\ IF ccLearnTargetRef # NullId
       THEN /\ ccMap' = CcLearnAssign(ccMap, cc, ccLearnTargetRef)
            /\ ccLearnTarget' = NullId
            /\ UNCHANGED settings
            /\ lastOp' = Op("cclearn", ccLearnTargetRef, cc)
       ELSE LET controlId == CcLookup(ccMapRef, cc)
            IN /\ UNCHANGED <<ccMap, ccLearnTarget>>
               /\ IF controlId = NullId \/ controlId \notin ControlIds
                    THEN /\ UNCHANGED settings
                         /\ lastOp' = Op("cc-unmapped", NullId, cc)
                    ELSE /\ settings' =
                              [settings EXCEPT
                                 ![controlId] = CcScale(ControlOf(controlId), value)]
                         /\ lastOp' = Op("cc", controlId, cc)
  /\ out' = << >>
  /\ steps' = steps + 1
  /\ sounding' = Sounded(sounding, out')
  /\ UNCHANGED <<noteVars, padVars, ccMapRef, ccLearnTargetRef, muteVars,
                 deviceVars, velVars, activeOscillators, timers>>

(***************************************************************************)
(* The listener of the selected MIDI input (lines 423-434).                *)
(***************************************************************************)
\* status & 0xf0
Command(status) == status - (status % 16)

\* Any other command: the listener returns without calling a handler.
MessageIgnored ==
  /\ midiAccessRef
  /\ out' = << >>
  /\ lastOp' = Op("midi-ignored", NullId, Null)
  /\ steps' = steps + 1
  /\ sounding' = Sounded(sounding, out')
  /\ UNCHANGED <<noteVars, padVars, ccVars, muteVars, deviceVars, velVars,
                 synthVars, timers>>

\* A listener that would take a 0x90 message of velocity 0 for a note-on.
onMessageZeroIsOn(status, note, velocity) ==
  LET cmd == Command(status)
  IN IF cmd = NoteOnStatus
       THEN handleMidiInput(note, velocity, TRUE)
       ELSE IF cmd = NoteOffStatus
              THEN handleMidiInput(note, velocity, FALSE)
              ELSE IF cmd = ControlChangeStatus
                     THEN handleCcInput(note, velocity)
                     ELSE MessageIgnored

onMessage(status, note, velocity) ==
  LET cmd == Command(status)
  IN IF cmd = NoteOnStatus /\ velocity > 0
       THEN handleMidiInput(note, velocity, TRUE)
       ELSE IF cmd = NoteOffStatus \/ (cmd = NoteOnStatus /\ velocity = 0)
              THEN handleMidiInput(note, velocity, FALSE)
              ELSE IF cmd = ControlChangeStatus
                     THEN handleCcInput(note, velocity)
                     ELSE MessageIgnored

(***************************************************************************)
(* Buttons of the pad-map panel (lines 637-703).  A button is a closure of *)
(* the last render: it sees the values that render committed, which are    *)
(* the values of the mirror refs.                                          *)
(***************************************************************************)
ButtonFrame ==
  UNCHANGED <<noteVars, muteVars, deviceVars, velVars, synthVars, timers>>

\* The controller note a row shows: the first entry of the rendered map with
\* this interval (Object.entries lists integer keys in ascending order).
MappedNote(m, interval) ==
  IF \E k \in DOMAIN m : m[k] = interval
    THEN CHOOSE k \in DOMAIN m : m[k] = interval /\ \A j \in DOMAIN m : m[j] = interval => k <= j
    ELSE Undefined

PadLearnButton(action) ==
  /\ midiLearnTarget' = IF midiLearnTargetRef = action THEN Null ELSE action
  /\ out' = << >>
  /\ lastOp' = Op("learn-button", NullId, action)
  /\ steps' = steps + 1
  /\ sounding' = Sounded(sounding, out')
  /\ ButtonFrame
  /\ UNCHANGED <<padMap, padMapRef, midiLearnTargetRef, rapidLearnActive,
                 rapidLearnActiveRef, lastMidiIn, ccVars>>

PadClearButton(action) ==
  /\ MappedNote(padMapRef, action) # Undefined
  /\ padMap' = ObjectDelete(padMap, MappedNote(padMapRef, action))
  /\ out' = << >>
  /\ lastOp' = Op("clear-row", NullId, action)
  /\ steps' = steps + 1
  /\ sounding' = Sounded(sounding, out')
  /\ ButtonFrame
  /\ UNCHANGED <<padMapRef, midiLearnTarget, midiLearnTargetRef, rapidLearnActive,
                 rapidLearnActiveRef, lastMidiIn, ccVars>>

RapidLearnButton ==
  /\ IF rapidLearnActiveRef
       THEN /\ rapidLearnActive' = FALSE
            /\ midiLearnTarget' = Null
            /\ UNCHANGED padMap
       ELSE /\ padMap' = EmptyObject
            /\ rapidLearnActive' = TRUE
            /\ midiLearnTarget' = ASSIGNABLE_ACTIONS[1]
  /\ out' = << >>
  /\ lastOp' = Op("rapid-button", NullId, Null)
  /\ steps' = steps + 1
  /\ sounding' = Sounded(sounding, out')
  /\ ButtonFrame
  /\ UNCHANGED <<padMapRef, midiLearnTargetRef, rapidLearnActiveRef, lastMidiIn,
                 ccVars>>

ResetButton ==
  /\ padMap' = DEFAULT_PAD_MAP
  /\ out' = << >>
  /\ lastOp' = Op("reset-button", NullId, Null)
  /\ steps' = steps + 1
  /\ sounding' = Sounded(sounding, out')
  /\ ButtonFrame
  /\ UNCHANGED <<padMapRef, midiLearnTarget, midiLearnTargetRef, rapidLearnActive,
                 rapidLearnActiveRef, lastMidiIn, ccVars>>

ClearAllButton ==
  /\ padMap' = EmptyObject
  /\ out' = << >>
  /\ lastOp' = Op("clear-all-button", NullId, Null)
  /\ steps' = steps + 1
  /\ sounding' = Sounded(sounding, out')
  /\ ButtonFrame
  /\ UNCHANGED <<padMapRef, midiLearnTarget, midiLearnTargetRef, rapidLearnActive,
                 rapidLearnActiveRef, lastMidiIn, ccVars>>

CancelLearnButton ==
  /\ midiLearnTargetRef # Null
  /\ midiLearnTarget' = Null
  /\ rapidLearnActive' = FALSE
  /\ out' = << >>
  /\ lastOp' = Op("cancel-button", NullId, Null)
  /\ steps' = steps + 1
  /\ sounding' = Sounded(sounding, out')
  /\ ButtonFrame
  /\ UNCHANGED <<padMap, padMapRef, midiLearnTargetRef, rapidLearnActiveRef,
                 lastMidiIn, ccVars>>

(***************************************************************************)
(* Buttons of the CC-map panel (lines 713-755).                            *)
(***************************************************************************)
MappedCc(m, controlId) ==
  IF \E k \in DOMAIN m : m[k] = controlId
    THEN CHOOSE k \in DOMAIN m : m[k] = controlId /\ \A j \in DOMAIN m : m[j] = controlId => k <= j
    ELSE Undefined

CcLearnButton(controlId) ==
  /\ ccLearnTarget' = IF ccLearnTargetRef = controlId THEN NullId ELSE controlId
  /\ out' = << >>
  /\ lastOp' = Op("cc-learn-button", controlId, Null)
  /\ steps' = steps + 1
  /\ sounding' = Sounded(sounding, out')
  /\ ButtonFrame
  /\ UNCHANGED <<padVars, ccMap, ccMapRef, ccLearnTargetRef>>

CcClearButton(controlId) ==
  /\ MappedCc(ccMapRef, controlId) # Undefined
  /\ ccMap' = ObjectDelete(ccMap, MappedCc(ccMapRef, controlId))
  /\ out' = << >>
  /\ lastOp' = Op("cc-clear-row", controlId, Null)
  /\ steps' = steps + 1
  /\ sounding' = Sounded(sounding, out')
  /\ ButtonFrame
  /\ UNCHANGED <<padVars, ccMapRef, ccLearnTarget, ccLearnTargetRef>>

CcClearAllButton ==
  /\ ccMap' = EmptyObject
  /\ out' = << >>
  /\ lastOp' = Op("cc-clear-all-button", NullId, Null)
  /\ steps' = steps + 1
  /\ sounding' = Sounded(sounding, out')
  /\ ButtonFrame
  /\ UNCHANGED <<padVars, ccMapRef, ccLearnTarget, ccLearnTargetRef>>

CcCancelLearnButton ==
  /\ ccLearnTargetRef # NullId
  /\ ccLearnTarget' = NullId
  /\ out' = << >>
  /\ lastOp' = Op("cc-cancel-button", NullId, Null)
  /\ steps' = steps + 1
  /\ sounding' = Sounded(sounding, out')
  /\ ButtonFrame
  /\ UNCHANGED <<padVars, ccMap, ccMapRef, ccLearnTargetRef>>

(***************************************************************************)
(* Output controls of the header and the MIDI setup panel (lines 545-628)  *)
(* and the device listener (lines 202-220).                                *)
(***************************************************************************)
ChannelChoices == {0, 1, NumChannels}

\* setSynthMuted(m => !m)
SynthMuteButton ==
  /\ synthMuted' = ~synthMuted
  /\ out' = << >>
  /\ lastOp' = Op("synth-mute-button", NullId, Null)
  /\ steps' = steps + 1
  /\ sounding' = Sounded(sounding, out')
  /\ UNCHANGED <<noteVars, padVars, ccVars, synthMutedRef, midiMuted, midiMutedRef,
                 deviceVars, velVars, synthVars, timers>>

\* setMidiMuted(m => !m)
MidiMuteButton ==
  /\ midiMuted' = ~midiMuted
  /\ out' = << >>
  /\ lastOp' = Op("midi-mute-button", NullId, Null)
  /\ steps' = steps + 1
  /\ sounding' = Sounded(sounding, out')
  /\ UNCHANGED <<noteVars, padVars, ccVars, synthMuted, synthMutedRef, midiMutedRef,
                 deviceVars, velVars, synthVars, timers>>

\* setSelectedOutput(e.target.value || null): an option of the rendered list.
OutputSelect(id) ==
  /\ id \in PortIds(midiOutputs) \cup {NullId}
  /\ selectedOutput' = id
  /\ out' = << >>
  /\ lastOp' = Op("output-select", id, Null)
  /\ steps' = steps + 1
  /\ sounding' = Sounded(sounding, out')
  /\ UNCHANGED <<noteVars, padVars, ccVars, muteVars, midiChannel, midiChannelRef,
                 selectedOutputRef, midiOutputs, midiAccessRef, ports, velVars,
                 synthVars, timers>>

\* setMidiChannel(Number(e.target.value)): 0 is ALL.
ChannelSelect(channel) ==
  /\ midiChannel' = channel
  /\ out' = << >>
  /\ lastOp' = Op("channel-select", NullId, channel)
  /\ steps' = steps + 1
  /\ sounding' = Sounded(sounding, out')
  /\ UNCHANGED <<noteVars, padVars, ccVars, muteVars, midiChannelRef, selectedOutput,
                 selectedOutputRef, midiOutputs, midiAccessRef, ports, velVars,
                 synthVars, timers>>

\* setUsePadVelocity(e.target.checked)
PadVelocityCheckbox ==
  /\ usePadVelocity' = ~usePadVelocityRef
  /\ out' = << >>
  /\ lastOp' = Op("pad-velocity-checkbox", NullId, Null)
  /\ steps' = steps + 1
  /\ sounding' = Sounded(sounding, out')
  /\ UNCHANGED <<noteVars, padVars, ccVars, muteVars, deviceVars, keyVelocities,
                 keyVelocitiesRef, velocityMultiplier, velocityMultiplierRef,
                 usePadVelocityRef, synthVars, timers>>

\* access.onstatechange: a port was plugged in or removed.
onstatechange(updatedOutputs) ==
  /\ midiAccessRef
  /\ updatedOutputs # ports
  /\ ports' = updatedOutputs
  /\ midiOutputs' = updatedOutputs
  /\ selectedOutput' =
       IF selectedOutputRef \in PortIds(updatedOutputs) THEN selectedOutput
       ELSE IF pickPreferredOutput(updatedOutputs) # NullId
              THEN pickPreferredOutput(updatedOutputs)
              ELSE selectedOutput
  /\ UNCHANGED <<noteVars, padVars, ccVars, muteVars, midiChannel, midiChannelRef,
                 selectedOutputRef, midiAccessRef, velVars, synthVars, timers,
                 out, lastOp, steps, sounding>>

(***************************************************************************)
(* Spec: a performance on keyboard, pads, on-screen piano and octave       *)
(* buttons with the mapping tables as constructed.                         *)
(***************************************************************************)
Next ==
  \/ steps < MaxSteps /\ \E k \in Keys : handleKeyDown(k)
  \/ steps < MaxSteps /\ \E k \in Keys : handleKeyUp(k)
  \/ steps < MaxSteps /\ \E n \in PadNotes, v \in PadVelocities : handleMidiInput(n, v, TRUE)
  \/ steps < MaxSteps /\ \E n \in PadNotes : handleMidiInput(n, 0, FALSE)
  \/ steps < MaxSteps /\ \E n \in PointerNotes : handleVisualKeyClick(n)
  \/ steps < MaxSteps /\ \E n \in PointerNotes : handleVisualKeyRelease(n)
  \/ steps < MaxSteps /\ \E d \in {-1, 1} : jumpOctave(d)
  \/ OctaveReleaseFires
  \/ Render
  \/ MidiAccessGranted

Spec == Init /\ [][Next]_vars

(***************************************************************************)
(* SpecPads: pads played while the pad map is edited.                      *)
(***************************************************************************)
NextPads ==
  \/ steps < MaxPadSteps /\ \E n \in PadNotes, v \in PadVelocities : handleMidiInput(n, v, TRUE)
  \/ steps < MaxPadSteps /\ \E n \in PadNotes : handleMidiInput(n, 0, FALSE)
  \/ steps < MaxPadSteps /\ \E a \in LearnTargets : PadLearnButton(a)
  \/ steps < MaxPadSteps /\ \E a \in LearnTargets : PadClearButton(a)
  \/ steps < MaxPadSteps /\ RapidLearnButton
  \/ steps < MaxPadSteps /\ ResetButton
  \/ steps < MaxPadSteps /\ ClearAllButton
  \/ steps < MaxPadSteps /\ CancelLearnButton
  \/ Render
  \/ MidiAccessGranted

SpecPads == Init /\ [][NextPads]_vars

(***************************************************************************)
(* SpecCc: knobs turned while the CC map is edited.                        *)
(***************************************************************************)
NextCc ==
  \/ steps < MaxCcSteps /\ \E c \in CcNumbers, v \in CcValues : handleCcInput(c, v)
  \/ steps < MaxCcSteps /\ \E c \in LearnControls : CcLearnButton(c)
  \/ steps < MaxCcSteps /\ \E c \in LearnControls : CcClearButton(c)
  \/ steps < MaxCcSteps /\ CcClearAllButton
  \/ steps < MaxCcSteps /\ CcCancelLearnButton
  \/ Render
  \/ MidiAccessGranted

SpecCc == Init /\ [][NextCc]_vars

(***************************************************************************)
(* SpecAnchor: the anchor walked to both ends of the note range by note    *)
(* triggers of every kind.                                                 *)
(***************************************************************************)
AnchorKeys == {"A"}
AnchorPads == {50}
AnchorClicks == {36, 96}

NextAnchor ==
  \/ steps < MaxAnchorSteps /\ \E k \in AnchorKeys : handleKeyDown(k)
  \/ steps < MaxAnchorSteps /\ \E n \in AnchorPads : handleMidiInput(n, DefaultVelocity, TRUE)
  \/ steps < MaxAnchorSteps /\ \E n \in AnchorClicks : handleVisualKeyClick(n)
  \/ steps < MaxAnchorSteps /\ \E d \in {-1, 1} : jumpOctave(d)
  \/ OctaveReleaseFires
  \/ Render
  \/ MidiAccessGranted

SpecAnchor == Init /\ [][NextAnchor]_vars

(***************************************************************************)
(* SpecLearn: both mapping tables armed, fed and cancelled.                *)
(***************************************************************************)
NextLearn ==
  \/ steps < MaxLearnSteps /\ \E n \in PadNotes, v \in PadVelocities : handleMidiInput(n, v, TRUE)
  \/ steps < MaxLearnSteps /\ \E n \in PadNotes : handleMidiInput(n, 0, FALSE)
  \/ steps < MaxLearnSteps /\ \E c \in CcNumbers, v \in CcValues : handleCcInput(c, v)
  \/ steps < MaxLearnSteps /\ \E a \in LearnTargets : PadLearnButton(a)
  \/ steps < MaxLearnSteps /\ \E c \in LearnControls : CcLearnButton(c)
  \/ steps < MaxLearnSteps /\ RapidLearnButton
  \/ steps < MaxLearnSteps /\ CancelLearnButton
  \/ steps < MaxLearnSteps /\ CcCancelLearnButton
  \/ Render
  \/ MidiAccessGranted

SpecLearn == Init /\ [][NextLearn]_vars

(***************************************************************************)
(* SpecRapid: rapid learn with clicks on the rows' Learn buttons.          *)
(***************************************************************************)
NextRapid ==
  \/ steps < MaxRapidSteps /\ RapidLearnButton
  \/ steps < MaxRapidSteps /\ \E n \in PadNotes : handleMidiInput(n, DefaultVelocity, TRUE)
  \/ steps < MaxRapidSteps /\ \E a \in LearnTargets : PadLearnButton(a)
  \/ Render
  \/ MidiAccessGranted

SpecRapid == Init /\ [][NextRapid]_vars

(***************************************************************************)
(* SpecRapidRun: rapid learn is started and then only pads are hit.        *)
(***************************************************************************)
RunPads == {51, 52}

\* Pads are hit while the panel shows rapid learn as active.
NextRapidRun ==
  \/ steps = 0 /\ RapidLearnButton
  \/ rapidLearnActiveRef /\ steps < MaxRunSteps
       /\ \E n \in RunPads : handleMidiInput(n, DefaultVelocity, TRUE)
  \/ Render
  \/ MidiAccessGranted

SpecRapidRun == Init /\ [][NextRapidRun]_vars

(***************************************************************************)
(* SpecOutput: notes played while outputs are muted, selected, unplugged   *)
(* and the channel is changed.                                             *)
(***************************************************************************)
NextOutput ==
  \/ steps < MaxOutputSteps /\ \E k \in Keys : handleKeyDown(k)
  \/ steps < MaxOutputSteps /\ \E k \in Keys : handleKeyUp(k)
  \/ steps < MaxOutputSteps /\ \E n \in PadNotes, v \in PadVelocities : handleMidiInput(n, v, TRUE)
  \/ steps < MaxOutputSteps /\ \E n \in PadNotes : handleMidiInput(n, 0, FALSE)
  \/ steps < MaxOutputSteps /\ SynthMuteButton
  \/ steps < MaxOutputSteps /\ MidiMuteButton
  \/ steps < MaxOutputSteps /\ \E id \in PortIds(PortPool) \cup {NullId} : OutputSelect(id)
  \/ steps < MaxOutputSteps /\ \E c \in ChannelChoices : ChannelSelect(c)
  \/ steps < MaxOutputSteps /\ PadVelocityCheckbox
  \/ \E l \in PortLists : onstatechange(l)
  \/ Render
  \/ MidiAccessGranted

SpecOutput == Init /\ [][NextOutput]_vars

(***************************************************************************)
(* The velocity popup of a key (lines 849-857) and the master velocity     *)
(* slider (lines 895-900).                                                 *)
(***************************************************************************)
\* setKeyVelocities(prev => ({ ...prev, [key]: Number(e.target.value) }))
KeyVelocitySlider(key, value) ==
  /\ keyVelocities' = [keyVelocities EXCEPT ![key] = value]
  /\ out' = << >>
  /\ lastOp' = Op("key-velocity-slider", key, value)
  /\ steps' = steps + 1
  /\ sounding' = Sounded(sounding, out')
  /\ UNCHANGED <<noteVars, padVars, ccVars, muteVars, deviceVars, keyVelocitiesRef,
                 velocityMultiplier, velocityMultiplierRef, usePadVelocity,
                 usePadVelocityRef, synthVars, timers>>

\* setVelocityMultiplier(Number(e.target.value))
VelocityMultiplierSlider(value) ==
  /\ velocityMultiplier' = value
  /\ out' = << >>
  /\ lastOp' = Op("velocity-multiplier-slider", NullId, value)
  /\ steps' = steps + 1
  /\ sounding' = Sounded(sounding, out')
  /\ UNCHANGED <<noteVars, padVars, ccVars, muteVars, deviceVars, keyVelocities,
                 keyVelocitiesRef, velocityMultiplierRef, usePadVelocity,
                 usePadVelocityRef, synthVars, timers>>

(***************************************************************************)
(* SpecVelocity: the sliders are moved over their whole ranges, then a     *)
(* note is triggered from each input path.                                 *)
(***************************************************************************)
VelocityKeys == {"A"}
VelocityPads == {43}
VelocityBytes == MinVelocity..MaxVelocity
VelocityClicks == {72}

NextVelocity ==
  \/ steps < MaxSliderSteps
       /\ \E m \in MinMultiplier..MaxMultiplier : VelocityMultiplierSlider(m)
  \/ steps < MaxSliderSteps
       /\ \E k \in VelocityKeys, v \in MinVelocity..MaxVelocity : KeyVelocitySlider(k, v)
  \/ steps < MaxVelocitySteps /\ PadVelocityCheckbox
  \/ steps < MaxVelocitySteps /\ \E k \in VelocityKeys : handleKeyDown(k)
  \/ steps < MaxVelocitySteps
       /\ \E n \in VelocityPads, v \in VelocityBytes : handleMidiInput(n, v, TRUE)
  \/ steps < MaxVelocitySteps /\ \E n \in VelocityClicks : handleVisualKeyClick(n)
  \/ steps < MaxVelocitySteps /\ \E d \in {1} : jumpOctave(d)
  \/ Render
  \/ MidiAccessGranted

SpecVelocity == Init /\ [][NextVelocity]_vars

(***************************************************************************)
(* SpecScale: a controller is learned for each synth control and swept     *)
(* over every value of a control-change message.                           *)
(***************************************************************************)
ScaleCcs == {74}

NextScale ==
  \/ steps < MaxScaleSteps /\ \E c \in ControlIds : CcLearnButton(c)
  \/ steps < MaxScaleSteps /\ \E c \in ScaleCcs, v \in 0..MaxCcValue : handleCcInput(c, v)
  \/ Render
  \/ MidiAccessGranted

SpecScale == Init /\ [][NextScale]_vars

(***************************************************************************)
(* SpecDecode: messages of every status byte arrive at the listener.       *)
(***************************************************************************)
StatusBytes == 128..255
DecodeData1 == {43, 51}
DecodeData2 == {0, 100}

NextDecode ==
  \/ steps < MaxDecodeSteps
       /\ \E s \in StatusBytes, d1 \in DecodeData1, d2 \in DecodeData2 : onMessage(s, d1, d2)
  \/ steps < MaxDecodeSteps /\ \E c \in LearnControls : CcLearnButton(c)
  \/ steps < MaxDecodeSteps /\ \E a \in LearnTargets : PadLearnButton(a)
  \/ Render
  \/ MidiAccessGranted

SpecDecode == Init /\ [][NextDecode]_vars

(***************************************************************************)
(* SpecPorts: ports are plugged in and removed one at a time, in every     *)
(* order, while an output is chosen in the selector.                       *)
(***************************************************************************)
PlugPool == Take(PortPool, NumPlugPorts)
RemoveAt(list, i) == SubSeq(list, 1, i - 1) \o SubSeq(list, i + 1, Len(list))
\* access.outputs after one port appeared (at the end) or disappeared.
PlugLists(list) ==
  {Append(list, PlugPool[i]) : i \in {j \in 1..Len(PlugPool) : PlugPool[j].id \notin PortIds(list)}}
    \cup {RemoveAt(list, i) : i \in 1..Len(list)}

NextPorts ==
  \/ \E l \in PlugLists(ports) : onstatechange(l)
  \/ steps < MaxPortSteps /\ \E id \in PortIds(PlugPool) \cup {NullId} : OutputSelect(id)
  \/ Render
  \/ MidiAccessGranted

SpecPorts == Init /\ [][NextPorts]_vars

(***************************************************************************)
(* SpecHistory: a run long enough to fill the note history.  It opens and  *)
(* closes with events of every kind; in between one key is struck again    *)
(* and again.                                                              *)
(***************************************************************************)
HistoryKeys == {"SPACE"}
HistoryPads == {43}
HistoryClicks == {60}
HistoryCcs == {74}
Mixed == steps < MaxMixedSteps \/ (HistoryFillSteps <= steps /\ steps < MaxHistorySteps)

NextHistory ==
  \/ steps < MaxHistorySteps /\ \E k \in HistoryKeys : handleKeyDown(k)
  \/ Mixed /\ \E k \in HistoryKeys : handleKeyUp(k)
  \/ Mixed /\ \E n \in HistoryPads : handleMidiInput(n, DefaultVelocity, TRUE)
  \/ Mixed /\ \E n \in HistoryPads : handleMidiInput(n, 0, FALSE)
  \/ Mixed /\ \E n \in HistoryClicks : handleVisualKeyClick(n)
  \/ Mixed /\ \E n \in HistoryClicks : handleVisualKeyRelease(n)
  \/ Mixed /\ \E d \in {-1, 1} : jumpOctave(d)
  \/ Mixed /\ \E c \in HistoryCcs : handleCcInput(c, MaxCcValue)
  \/ OctaveReleaseFires
  \/ Render
  \/ MidiAccessGranted

SpecHistory == Init /\ [][NextHistory]_vars

(***************************************************************************)
(* A send that fails.  output.send (lines 266-271, 286-291) is called      *)
(* outside any try block: when it throws, noteOn / noteOff and the handler *)
(* that called them stop at that statement.  A send is reached only when   *)
(* getMidiOutput returns a port and external MIDI is not muted.            *)
(***************************************************************************)
SendReached == getMidiOutput # NullId /\ ~midiMutedRef

\* handleKeyDown (lines 444-468): with a held note the throw comes from
\* noteOff(prevNote) at line 453, before any state is written; without one it
\* comes from noteOn(newNote, label) at line 466, the last statement.
handleKeyDownSendThrows(k) ==
  /\ SendReached
  /\ LET prevNote == MapGet(heldNotesRef, k)
         released == prevNote # Undefined
         interval == KEY_MAP[k]
         newNote == Resolve(currentNoteRef, interval)
         vel == Velocity(KeyVelocity(k), velocityMultiplierRef)
     IN IF released
          THEN /\ out' = IF ~synthMutedRef THEN <<SynthCall("stopNote", prevNote, 0)>>
                         ELSE << >>
               /\ activeOscillators' = stopNote(activeOscillators, prevNote)
               /\ lastOp' = Op("keydown-threw", k, prevNote)
               /\ UNCHANGED noteVars
          ELSE /\ heldNotesRef' = MapSet(heldNotesRef, k, newNote)
               /\ pressedKeys' = pressedKeys \cup {k}
               /\ lastInterval' = interval
               /\ activeNotes' = ActiveNotesOf(MapSet(heldNotesRef, k, newNote))
               /\ currentNote' = newNote
               /\ noteHistory' = HistoryAppend(noteHistory, newNote, steps + 1)
               /\ out' = IF ~synthMutedRef THEN <<SynthCall("playNote", newNote, vel)>>
                         ELSE << >>
               /\ activeOscillators' = playNote(activeOscillators, newNote)
               /\ lastOp' = Op("keydown-threw", k, newNote)
               /\ UNCHANGED currentNoteRef
  /\ steps' = steps + 1
  /\ sounding' = Sounded(sounding, out')
  /\ UNCHANGED <<padVars, ccVars, muteVars, deviceVars, velVars, settings, timers>>

\* handleKeyUp (lines 470-489): the throw comes from noteOff(heldNote) at
\* line 477, before the registry entry is deleted.
handleKeyUpSendThrows(k) ==
  /\ SendReached
  /\ MapHas(heldNotesRef, k)
  /\ LET heldNote == MapGet(heldNotesRef, k)
     IN /\ out' = IF ~synthMutedRef THEN <<SynthCall("stopNote", heldNote, 0)>>
                  ELSE << >>
        /\ activeOscillators' = stopNote(activeOscillators, heldNote)
        /\ lastOp' = Op("keyup-threw", k, heldNote)
  /\ steps' = steps + 1
  /\ sounding' = Sounded(sounding, out')
  /\ UNCHANGED <<noteVars, padVars, ccVars, muteVars, deviceVars, velVars, settings,
                 timers>>

\* jumpOctave (lines 524-532): the throw comes from noteOn(newNote, null) at
\* line 529, before the release is scheduled.
jumpOctaveSendThrows(direction) ==
  /\ SendReached
  /\ LET newNote == Resolve(currentNoteRef, direction * OctaveSemitones)
         vel == Velocity(DefaultVelocity, velocityMultiplierRef)
     IN /\ currentNote' = newNote
        /\ lastInterval' = direction * OctaveSemitones
        /\ noteHistory' = HistoryAppend(noteHistory, newNote, steps + 1)
        /\ out' = IF ~synthMutedRef THEN <<SynthCall("playNote", newNote, vel)>>
                  ELSE << >>
        /\ activeOscillators' = playNote(activeOscillators, newNote)
        /\ lastOp' = Op("jump-threw", NullId, newNote)
  /\ steps' = steps + 1
  /\ sounding' = Sounded(sounding, out')
  /\ UNCHANGED <<currentNoteRef, heldNotesRef, activeNotes, pressedKeys, padVars,
                 ccVars, muteVars, deviceVars, velVars, settings, timers>>

(***************************************************************************)
(* SpecFailure: notes played without MIDI access, without a device, after  *)
(* the device is removed and while sends fail.                             *)
(***************************************************************************)
NextFailure ==
  \/ steps < MaxFailureSteps /\ \E k \in Keys : handleKeyDown(k)
  \/ steps < MaxFailureSteps /\ \E k \in Keys : handleKeyUp(k)
  \/ steps < MaxFailureSteps /\ \E n \in PointerNotes : handleVisualKeyClick(n)
  \/ steps < MaxFailureSteps /\ \E n \in PointerNotes : handleVisualKeyRelease(n)
  \/ steps < MaxFailureSteps /\ \E d \in {-1, 1} : jumpOctave(d)
  \/ steps < MaxFailureSteps /\ \E k \in Keys : handleKeyDownSendThrows(k)
  \/ steps < MaxFailureSteps /\ \E k \in Keys : handleKeyUpSendThrows(k)
  \/ steps < MaxFailureSteps /\ \E d \in {-1, 1} : jumpOctaveSendThrows(d)
  \/ OctaveReleaseFires
  \/ \E l \in PortLists : onstatechange(l)
  \/ Render
  \/ MidiAccessGranted

SpecFailure == Init /\ [][NextFailure]_vars

(***************************************************************************)
(* Vocabulary of the properties.                                           *)
(***************************************************************************)
Clamp(x, lo, hi) == IF x < lo THEN lo ELSE IF x > hi THEN hi ELSE x
Notes == MinNote..MaxNote

IsNoteOn(e) == e.fn = "playNote" \/ (e.fn = "send" /\ e.status >= NoteOnStatus)
IsNoteOff(e) == e.fn = "stopNote" \/ (e.fn = "send" /\ e.status < NoteOnStatus)
OnIndexes(o) == {i \in 1..Len(o) : IsNoteOn(o[i])}
OffIndexes(o) == {i \in 1..Len(o) : IsNoteOff(o[i])}
SoundedNotes(o) == {o[i].note : i \in OnIndexes(o)}
SilencedNotes(o) == {o[i].note : i \in OffIndexes(o)}

\* The step is one handled input event.
Handled(ops) == steps' = steps + 1 /\ lastOp'.op \in ops
Holders(held, note) == {k \in MapKeys(held) : MapGet(held, k) = note}
PreviousAnchor == noteHistory[Len(noteHistory) - 1].note

C2_ResolvesAgainstCurrentAnchor ==
  [][Handled({"keydown", "padon", "jump"}) =>
       currentNote' = Clamp(currentNote + lastInterval', 0, 127)]_vars

\* C3: when a source key that already holds n1 is pressed again and resolves
\* to n2, the note-off of n1 is emitted before the note-on of n2, the source's
\* entry becomes n2, the active notes contain n2, and for n1 # n2 they contain
\* n1 exactly if another source still holds n1.
C3_HoldThenRehold ==
  [][(Handled({"keydown", "padon", "click"}) /\ MapHas(heldNotesRef, lastOp'.key)) =>
       LET k == lastOp'.key
           n1 == MapGet(heldNotesRef, k)
           n2 == lastOp'.note
       IN /\ SilencedNotes(out') \subseteq {n1}
          /\ SoundedNotes(out') \subseteq {n2}
          /\ ~synthMutedRef => SilencedNotes(out') = {n1} /\ SoundedNotes(out') = {n2}
          /\ \A i \in OffIndexes(out'), j \in OnIndexes(out') : i < j
          /\ MapGet(heldNotesRef', k) = n2
          /\ n2 \in Range(activeNotes')
          /\ n1 # n2 =>
               (n1 \in Range(activeNotes') <=> Holders(heldNotesRef', n1) \ {k} # {})]_vars

\* C3 witness: a key that held n1 has been pressed again, sounds n2 # n1 after
\* the note-off of n1, and n1 is no longer active.
C3_Witness ==
  /\ lastOp.op = "keydown"
  /\ Len(out) >= 2
  /\ out[1] = SynthCall("stopNote", out[1].note, 0)
  /\ out[1].note # lastOp.note
  /\ out[1].note \notin Range(activeNotes)
  /\ MapGet(heldNotesRef, lastOp.key) = lastOp.note
  /\ lastOp.note \in Range(activeNotes)

\* C4: a key-up, or the note-off of a mapped pad, emits one note-off for the
\* note the source holds and removes the entry; a key-up or pad note-off whose
\* source holds nothing (as on a second release in a row) emits nothing and
\* leaves the registry unchanged.
C4_ReleaseIdempotent ==
  [][Handled({"keyup", "padoff", "padoff-unmapped"}) =>
       LET k == lastOp'.key
           n == MapGet(heldNotesRef, k)
       IN IF MapHas(heldNotesRef, k)
            THEN lastOp'.op # "padoff-unmapped" =>
                   /\ SelectSeq(out', LAMBDA e : e.dev = "synth")
                        = (IF synthMutedRef THEN << >>
                           ELSE <<SynthCall("stopNote", n, 0)>>)
                   /\ \A i \in 1..Len(out') : IsNoteOff(out'[i]) /\ out'[i].note = n
                   /\ \A i, j \in 1..Len(out') : out'[i] = out'[j] => i = j
                   /\ ~MapHas(heldNotesRef', k)
            ELSE /\ out' = << >>
                 /\ heldNotesRef' = heldNotesRef]_vars

\* C4 witness: a key was pressed, released and released again; the second
\* release emitted nothing.
C4_Witness ==
  /\ lastOp.op = "keyup"
  /\ lastOp.note = Undefined
  /\ out = << >>
  /\ steps = 3
  /\ Len(noteHistory) = 2
  /\ noteHistory[2].note = InitialNote + KEY_MAP[lastOp.key]
  /\ heldNotesRef = << >>

\* C5 (as claimed): a pointer release for note n emits a note-off only if the
\* pointer source holds n.
C5_PointerReleaseNoOp ==
  [][Handled({"pointer-release"}) =>
       (MapGet(heldNotesRef, MouseLabel) # lastOp'.note => out' = << >>)]_vars

\* C6 (as claimed): once the note-off message of a pad has been handled, that
\* pad holds no note in the registry.
C6_NoOrphanedPadNote ==
  lastOp.op \in {"padoff", "padoff-unmapped"} => ~MapHas(heldNotesRef, lastOp.key)

\* C7: the active notes are the registry's values without duplicates.
C7_ActiveNotesAreRegistryValues ==
  /\ Range(activeNotes) = Range(MapValues(heldNotesRef))
  /\ \A i, j \in 1..Len(activeNotes) : activeNotes[i] = activeNotes[j] => i = j

\* C7 witness: two sources hold the same note and it is listed once.
C7_Witness ==
  /\ Len(heldNotesRef) = 2
  /\ heldNotesRef[1].val = heldNotesRef[2].val
  /\ activeNotes = <<heldNotesRef[1].val>>

\* C8: a handled event adds, replaces or removes the registry entry of its own
\* source key only; the entry of every other source key is unchanged.
C8_SourceKeysIndependent ==
  [][steps' = steps + 1 =>
       \A k \in (MapKeys(heldNotesRef) \cup MapKeys(heldNotesRef')) \ {lastOp'.key} :
         MapGet(heldNotesRef', k) = MapGet(heldNotesRef, k)]_vars

\* C8 witness: a keyboard key, the pointer and a pad hold notes at once.
C8_Witness ==
  /\ MapHas(heldNotesRef, MouseLabel)
  /\ \E k \in Keys : MapHas(heldNotesRef, k)
  /\ \E n \in PadNotes : MapHas(heldNotesRef, PadLabel(n))
  /\ lastOp.op \in {"keydown", "padon", "click"}

OneToOne(m) == \A j, k \in DOMAIN m : m[j] = m[k] => j = k

PadLearnAssigns ==
  Handled({"padlearn"}) =>
    LET p == lastOp'.note
        t == midiLearnTargetRef
    IN /\ PadLookup(padMap', p) = t
       /\ \A k \in DOMAIN padMap' \ {p} :
            /\ padMap'[k] # t
            /\ PadLookup(padMap, k) = padMap'[k]
       /\ \A k \in DOMAIN padMap \ {p} :
            padMap[k] # t => PadLookup(padMap', k) = padMap[k]

\* C9: no two controller notes map to the same interval, in the pad map and in
\* its mirror; a learn assignment of pad p to interval t leaves p mapped to t,
\* no other pad mapped to t, and every other pad's mapping to another interval
\* as it was.
C9_PadMapOneToOne ==
  /\ OneToOne(padMap)
  /\ OneToOne(padMapRef)
  /\ [][OneToOne(padMap') /\ OneToOne(padMapRef') /\ PadLearnAssigns]_vars

\* C9 witness: pad 43, mapped to interval 0, has been learned for interval +12;
\* pad 50, which held +12, maps to nothing.
C9_Witness ==
  /\ lastOp.op = "padlearn"
  /\ PadLookup(padMap, 43) = 12
  /\ PadLookup(padMap, 50) = Undefined
  /\ PadLookup(padMap, 36) = -12

CcLearnAssigns ==
  Handled({"cclearn"}) =>
    LET c == lastOp'.note
        p == ccLearnTargetRef
    IN /\ CcLookup(ccMap', c) = p
       /\ \A k \in DOMAIN ccMap' \ {c} :
            /\ ccMap'[k] # p
            /\ CcLookup(ccMap, k) = ccMap'[k]
       /\ \A k \in DOMAIN ccMap \ {c} :
            ccMap[k] # p => CcLookup(ccMap', k) = ccMap[k]

\* C10: every synth parameter is the target of at most one CC number; a
\* CC-learn assignment of CC number c to parameter p leaves c mapped to p, no
\* other CC number mapped to p, and every other entry as it was.
C10_CcMapOneToOne ==
  /\ OneToOne(ccMap)
  /\ OneToOne(ccMapRef)
  /\ [][OneToOne(ccMap') /\ OneToOne(ccMapRef') /\ CcLearnAssigns]_vars

\* C10 witness: CC 74 has been learned for cutoff, the parameter CC 7 was
\* mapped to, and CC 7 has been learned for resonance.
C10_Witness ==
  /\ lastOp.op = "cclearn"
  /\ CcLookup(ccMap, 74) = "cutoff"
  /\ CcLookup(ccMap, 7) = "resonance"

(***************************************************************************)
(* Learn sessions.                                                         *)
(***************************************************************************)
PadOnOps == {"padlearn", "padon", "padon-unmapped"}
PadOffOps == {"padoff", "padoff-unmapped"}
CcOps == {"cclearn", "cc", "cc-unmapped"}

\* C11 (as claimed): with rapid mode off, the note-on that finds pad-learn
\* target t armed maps its controller note to t and clears the target; the
\* control-change that finds CC-learn target p armed maps its number to p and
\* clears the target; and a learn session makes one assignment: the input
\* event that follows a capture which ended the session is not captured too.
C11_OneAssignmentPerSession ==
  [][/\ (Handled({"padlearn"}) /\ ~rapidLearnActiveRef) =>
          /\ PadLookup(padMap', lastOp'.note) = midiLearnTargetRef
          /\ midiLearnTarget' = Null
     /\ Handled({"cclearn"}) =>
          /\ CcLookup(ccMap', lastOp'.note) = ccLearnTargetRef
          /\ ccLearnTarget' = NullId
     /\ (lastOp.op = "padlearn" /\ midiLearnTarget = Null) => ~Handled({"padlearn"})
     /\ (lastOp.op = "cclearn" /\ ccLearnTarget = NullId) => ~Handled({"cclearn"})]_vars

\* C12: a note-on handled while the handler finds a pad-learn target armed
\* changes the pad map, the learn target, the rapid flag and the last-received
\* record only: anchor, registry, active notes, history and every other state
\* are unchanged and nothing is emitted, also when the controller note was
\* mapped.  A control-change handled while a CC-learn target is armed writes no
\* synth setting.
C12_CaptureHasNoNormalEffect ==
  [][/\ (Handled(PadOnOps) /\ midiLearnTargetRef # Null) =>
          /\ UNCHANGED <<currentNote, currentNoteRef, heldNotesRef, activeNotes,
                         noteHistory, pressedKeys, lastInterval>>
          /\ UNCHANGED <<ccVars, muteVars, deviceVars, velVars, synthVars, timers>>
          /\ UNCHANGED <<padMapRef, midiLearnTargetRef, rapidLearnActiveRef>>
          /\ out' = << >>
     /\ (Handled(CcOps) /\ ccLearnTargetRef # NullId) =>
          /\ UNCHANGED <<settings, activeOscillators, noteVars>>
          /\ out' = << >>]_vars

\* C12 witness: pad 50, mapped to +12, was hit while -12 was armed: it is now
\* mapped to -12, the anchor is still 60, nothing is held and nothing sounded.
C12_Witness ==
  /\ lastOp.op = "padlearn"
  /\ lastOp.note = 50
  /\ PadLookup(padMapRef, 50) = 12
  /\ PadLookup(padMap, 50) = -12
  /\ midiLearnTarget = Null
  /\ currentNote = InitialNote
  /\ heldNotesRef = << >>
  /\ Len(noteHistory) = 1
  /\ out = << >>

\* C13 (as claimed): Cancel Learn, or a click on the armed row's Learn button,
\* clears that table's target and leaves the pad map and the CC map as they
\* were, and the input event that follows the cancel is not captured as an
\* assignment.
C13_CancelMakesNoAssignment ==
  [][/\ (Handled({"cancel-button"})
           \/ (Handled({"learn-button"}) /\ midiLearnTargetRef = lastOp'.note)) =>
          /\ midiLearnTarget' = Null
          /\ UNCHANGED <<padMap, ccMap>>
     /\ (Handled({"cc-cancel-button"})
           \/ (Handled({"cc-learn-button"}) /\ ccLearnTargetRef = lastOp'.key)) =>
          /\ ccLearnTarget' = NullId
          /\ UNCHANGED <<padMap, ccMap>>
     /\ (lastOp.op \in {"cancel-button", "learn-button"} /\ midiLearnTarget = Null) =>
          ~Handled({"padlearn"})
     /\ (lastOp.op \in {"cc-cancel-button", "cc-learn-button"}
           /\ ccLearnTarget = NullId) =>
          ~Handled({"cclearn"})]_vars

(***************************************************************************)
(* Rapid learn.                                                            *)
(***************************************************************************)
\* C14 (as claimed): starting rapid learn empties the pad map and arms the
\* first entry of ASSIGNABLE_ACTIONS; a note-on that finds ASSIGNABLE_ACTIONS[i]
\* armed maps its controller note to it and arms ASSIGNABLE_ACTIONS[i+1]; and
\* the targets are visited in list order, none skipped or repeated: of two
\* captures in a row, the second assigns the target the first advanced to.
C14_RapidLearnSequence ==
  [][/\ (Handled({"rapid-button"}) /\ ~rapidLearnActiveRef) =>
          /\ padMap' = EmptyObject
          /\ rapidLearnActive'
          /\ midiLearnTarget' = ASSIGNABLE_ACTIONS[1]
          /\ midiLearnTarget' = -12
     /\ (Handled({"padlearn"}) /\ rapidLearnActiveRef
           /\ FindAction(midiLearnTargetRef) < Len(ASSIGNABLE_ACTIONS)) =>
          /\ PadLookup(padMap', lastOp'.note) = midiLearnTargetRef
          /\ midiLearnTarget' = ASSIGNABLE_ACTIONS[FindAction(midiLearnTargetRef) + 1]
     /\ (Handled({"padlearn"}) /\ lastOp.op = "padlearn" /\ rapidLearnActive) =>
          midiLearnTargetRef = midiLearnTarget]_vars

\* C15 (as claimed): after rapid learn was started and only pads are hit, the
\* 25th note-on, one per entry of ASSIGNABLE_ACTIONS, has assigned +12, cleared
\* the learn target and cleared rapid mode.
C15_RapidLearnTerminates ==
  steps = 1 + Len(ASSIGNABLE_ACTIONS) =>
    /\ midiLearnTarget = Null
    /\ ~rapidLearnActive
    /\ \E k \in DOMAIN padMap : padMap[k] = ASSIGNABLE_ACTIONS[Len(ASSIGNABLE_ACTIONS)]

\* C16 (as claimed): in rapid mode, the learn target armed by a pad assignment
\* is an action no controller note is mapped to.
C16_NextTargetUnassigned ==
  [][(Handled({"padlearn"}) /\ rapidLearnActiveRef /\ midiLearnTarget' # Null) =>
       \A k \in DOMAIN padMap' : padMap'[k] # midiLearnTarget']_vars

\* C17 (as claimed): the pad-learn target and the CC-learn target are never
\* both armed.
C17_AtMostOneLearnTarget == ~(midiLearnTarget # Null /\ ccLearnTarget # NullId)

\* The controller note of the pad message just handled.
PadNoteOf(key) == CHOOSE n \in PadNotes \cup RunPads : PadLabel(n) = key

\* C18: while the handler finds no pad-learn target armed, a note-on or
\* note-off of a controller note that its pad map does not hold changes the
\* last-received record only (and that for a note-on only) and emits nothing;
\* while it finds no CC-learn target armed, a control-change whose number its
\* CC map does not hold changes no state.
C18_UnmappedEventsIgnored ==
  [][/\ (Handled(PadOnOps \cup PadOffOps) /\ midiLearnTargetRef = Null
           /\ PadLookup(padMapRef, PadNoteOf(lastOp'.key)) = Undefined) =>
          /\ UNCHANGED <<noteVars, padMap, padMapRef, midiLearnTarget,
                         midiLearnTargetRef, rapidLearnActive, rapidLearnActiveRef>>
          /\ UNCHANGED <<ccVars, muteVars, deviceVars, velVars, synthVars, timers>>
          /\ lastOp'.op \in PadOffOps => UNCHANGED lastMidiIn
          /\ out' = << >>
     /\ (Handled(CcOps) /\ ccLearnTargetRef = NullId
           /\ CcLookup(ccMapRef, lastOp'.note) = NullId) =>
          /\ UNCHANGED <<noteVars, padVars, ccVars, muteVars, deviceVars, velVars,
                         synthVars, timers>>
          /\ out' = << >>]_vars

\* C18 witness: the note-on of pad 51, which the default pad map does not
\* hold, was handled: it is the last-received note, the anchor is still 60,
\* nothing is held and nothing sounded.
C18_Witness ==
  /\ lastOp.op = "padon-unmapped"
  /\ lastOp.key = PadLabel(51)
  /\ lastMidiIn.note = 51
  /\ midiLearnTargetRef = Null
  /\ padMap = DEFAULT_PAD_MAP
  /\ currentNote = InitialNote
  /\ heldNotesRef = << >>
  /\ Len(noteHistory) = 1
  /\ out = << >>

(***************************************************************************)
(* Output fan-out.                                                         *)
(***************************************************************************)
NoteOps == {"keydown", "keyup", "padon", "padoff"}
PressOps == {"keydown", "padon"}

\* The note events of the step: the note-off of the note the source held,
\* then, for a press, the note-on of the resolved note.
ExpectedEvents ==
  LET k == lastOp'.key
  IN (IF MapHas(heldNotesRef, k)
        THEN <<[on |-> FALSE, note |-> MapGet(heldNotesRef, k)]>> ELSE << >>)
     \o (IF lastOp'.op \in PressOps
           THEN <<[on |-> TRUE, note |-> lastOp'.note]>> ELSE << >>)

EventOf(e) == [on |-> IsNoteOn(e), note |-> e.note]
SynthCalls(o) == SelectSeq(o, LAMBDA e : e.dev = "synth")
Sends(o) == SelectSeq(o, LAMBDA e : e.fn = "send")

\* External MIDI is not muted and the selected output is a present device.
MidiEnabled ==
  /\ ~midiMutedRef
  /\ midiAccessRef
  /\ selectedOutputRef # NullId
  /\ selectedOutputRef \in PortIds(ports)

\* C19: for every note event of a key or pad step the synth is called exactly
\* if the synth is not muted, MIDI messages are sent (to the selected output)
\* exactly if external MIDI is not muted and the selected output is a present
\* device, each path whatever the other's mute, and the sends of an event
\* follow its synth call, with the same note and velocity.
C19_FanOutGatingAndOrder ==
  [][Handled(NoteOps) =>
       /\ [i \in 1..Len(SynthCalls(out')) |-> EventOf(SynthCalls(out')[i])]
            = (IF synthMutedRef THEN << >> ELSE ExpectedEvents)
       /\ {EventOf(e) : e \in Range(Sends(out'))}
            = (IF MidiEnabled THEN Range(ExpectedEvents) ELSE {})
       /\ \A j \in 1..Len(out') :
            out'[j].fn = "send" =>
              /\ out'[j].dev = selectedOutputRef
              /\ ~synthMutedRef =>
                   \E i \in 1..(j - 1) :
                     /\ out'[i].dev = "synth"
                     /\ EventOf(out'[i]) = EventOf(out'[j])
                     /\ out'[i].vel = out'[j].vel
                     /\ \A m \in (i + 1)..(j - 1) : out'[m].fn = "send"]_vars

\* C19 witness: with the synth muted and external MIDI on, a pad press passed
\* its velocity 90 to the MIDI output in one message and did not call the synth.
C19_Witness ==
  /\ lastOp.op = "padon"
  /\ synthMutedRef
  /\ ~midiMutedRef
  /\ usePadVelocityRef
  /\ Len(out) = 1
  /\ out[1].fn = "send"
  /\ out[1].note = lastOp.note
  /\ out[1].vel = 90

\* C20: with the channel at ALL (0) and MIDI output enabled, every note event
\* of a key or pad step is sent 16 times, on channels 0..15 in ascending order,
\* with status 0x90 + ch for a note-on and 0x80 + ch for a note-off, the same
\* note in all 16 and the same velocity (0 for a note-off).
C20_AllChannelBroadcast ==
  [][(Handled(NoteOps) /\ midiChannelRef = 0 /\ MidiEnabled) =>
       LET sends == Sends(out')
           ev == ExpectedEvents
       IN /\ Len(sends) = 16 * Len(ev)
          /\ \A e \in 1..Len(ev) : \A ch \in 0..15 :
               LET s == sends[16 * (e - 1) + ch + 1]
               IN /\ s.status = (IF ev[e].on THEN 144 ELSE 128) + ch
                  /\ s.note = ev[e].note
                  /\ s.vel = (IF ev[e].on THEN sends[16 * (e - 1) + 1].vel ELSE 0)
                  /\ ev[e].on => s.vel \in 1..127]_vars

\* C20 witness: with the channel at ALL, a key held and pressed again sent 16
\* note-offs and 16 note-ons after the synth calls of each.
C20_Witness ==
  /\ lastOp.op = "keydown"
  /\ midiChannelRef = 0
  /\ Len(out) = 34
  /\ out[1].fn = "stopNote"
  /\ out[17].status = 143
  /\ out[18].fn = "playNote"
  /\ out[19].status = 144
  /\ out[34].status = 159

\* clamp(round(base * multiplier / 100), 1, 127), halves rounded up.
VelocityOf(base, multiplier) == Clamp((2 * base * multiplier + 100) \div 200, 1, 127)

\* C21: with both paths unmuted, an output selected and channel c of 1..16, the
\* press of a keyboard key with interval i at anchor a calls playNote(n, v) and
\* then sends the one message [0x90 + (c - 1), n, v], n = clamp(a + i, 0, 127)
\* and v the key's velocity; the release of the key calls stopNote(n) and then
\* sends the one message [0x80 + (c - 1), n, 0].  At anchor 60, key A (-4),
\* velocity 100 and multiplier 100 the note is 56 and the velocity 100.
C21_SingleChannelKeyPress ==
  [][/\ (Handled({"keydown"}) /\ ~synthMutedRef /\ MidiEnabled
           /\ midiChannelRef \in 1..16 /\ ~MapHas(heldNotesRef, lastOp'.key)) =>
          LET k == lastOp'.key
              n == Clamp(currentNoteRef + KEY_MAP[k], 0, 127)
              v == VelocityOf(keyVelocitiesRef[k], velocityMultiplierRef)
          IN /\ out' = << SynthCall("playNote", n, v),
                          MidiSend(selectedOutputRef, 144 + (midiChannelRef - 1), n, v) >>
             /\ (k = "A" /\ currentNoteRef = 60 /\ keyVelocitiesRef[k] = 100
                   /\ velocityMultiplierRef = 100) => n = 56 /\ v = 100
     /\ (Handled({"keyup"}) /\ ~synthMutedRef /\ MidiEnabled
           /\ midiChannelRef \in 1..16 /\ MapHas(heldNotesRef, lastOp'.key)) =>
          LET n == MapGet(heldNotesRef, lastOp'.key)
          IN out' = << SynthCall("stopNote", n, 0),
                       MidiSend(selectedOutputRef, 128 + (midiChannelRef - 1), n, 0) >>]_vars

\* C21 witness: on channel 16 key A was pressed at anchor 60 and released: the
\* release called stopNote(56) and sent [0x8F, 56, 0].
C21_Witness ==
  /\ lastOp.op = "keyup"
  /\ lastOp.key = "A"
  /\ midiChannelRef = 16
  /\ Len(out) = 2
  /\ out[1] = SynthCall("stopNote", 56, 0)
  /\ out[2].status = 143
  /\ out[2].note = 56
  /\ out[2].vel = 0
  /\ Len(noteHistory) = 2

\* The note triggers, and the base velocity the trigger of this step used.
TriggerOps == {"keydown", "padon", "click", "jump"}
BaseVelocity ==
  CASE lastOp'.op = "keydown" -> keyVelocitiesRef[lastOp'.key]
    [] lastOp'.op = "padon" -> IF usePadVelocityRef THEN lastMidiIn'.vel ELSE 100
    [] OTHER -> 100
\* round(base * multiplier / 100): the integer within one half of the quotient.
RoundedProduct(base, multiplier) ==
  CHOOSE r \in 0..255 :
    200 * r - 100 <= 2 * base * multiplier /\ 2 * base * multiplier < 200 * r + 100

\* C22: the velocity of every note-on a trigger emits is
\* clamp(round(base * multiplier / 100), 1, 127), for a base in [1,127] and a
\* multiplier in [1,200], and so always lies in [1,127].
C22_VelocityFormula ==
  [][Handled(TriggerOps) =>
       /\ BaseVelocity \in 1..127
       /\ velocityMultiplierRef \in 1..200
       /\ \A i \in OnIndexes(out') :
            /\ out'[i].vel =
                 Clamp(RoundedProduct(BaseVelocity, velocityMultiplierRef), 1, 127)
            /\ out'[i].vel \in 1..127]_vars

\* C22 witness: at multiplier 1% a pad struck at 49 gives round(0.49) = 0, which
\* the clamp raises to velocity 1.
C22_Witness ==
  /\ lastOp.op = "padon"
  /\ velocityMultiplierRef = 1
  /\ usePadVelocityRef
  /\ lastMidiIn.vel = 49
  /\ Len(out) > 0
  /\ out[1].fn = "playNote"
  /\ out[1].vel = 1

NearestStep(ctrl, v) ==
  CHOOSE r \in 0..((ctrl.max * ctrl.stepDen) \div ctrl.stepNum + 1) :
    LET x2 == 2 * (ctrl.min * 127 + v * (ctrl.max - ctrl.min)) * ctrl.stepDen
        u == 127 * ctrl.stepNum
    IN 2 * u * r - u <= x2 /\ x2 < 2 * u * r + u
ExpectedWrite(ctrl, v) ==
  Clamp(ctrl.stepNum * NearestStep(ctrl, v), ctrl.min * ctrl.stepDen, ctrl.max * ctrl.stepDen)

\* C24: a control-change value v on a controller mapped to a control with
\* (min, max, step) writes clamp(step * round((min + v / 127 * (max - min)) / step),
\* min, max): the value lies in [min, max], v = 0 writes min and v = 127 writes
\* max; for cutoff (20, 20000, 10) it is a multiple of 10 and v = 64 writes 10090.
C24_CcScaling ==
  [][\A cc \in ScaleCcs, v \in 0..127 :
       (handleCcInput(cc, v) /\ lastOp'.op = "cc") =>
         LET ctrl == ControlOf(lastOp'.key)
             w == settings'[ctrl.id]
         IN /\ w = ExpectedWrite(ctrl, v)
            /\ ctrl.min * ctrl.stepDen <= w
            /\ w <= ctrl.max * ctrl.stepDen
            /\ v = 0 => w = ctrl.min * ctrl.stepDen
            /\ v = 127 => w = ctrl.max * ctrl.stepDen
            /\ ctrl.id = "cutoff" => /\ w % 10 = 0
                                     /\ v = 64 => w = 10090]_vars

\* C24 witness: a control-change on the controller learned for cutoff wrote 10090.
C24_Witness ==
  /\ lastOp.op = "cc"
  /\ lastOp.key = "cutoff"
  /\ CcLookup(ccMapRef, lastOp.note) = "cutoff"
  /\ settings["cutoff"] = 10090

\* C25: the handling of a control-change message, in CC-learn mode or not, on a
\* mapped controller or not, leaves the anchor, the held-note registry, the
\* active notes, the history and the pad map unchanged and emits no note-on and
\* no note-off.
C25_CcLeavesNotesAlone ==
  [][Handled(CcOps) =>
       /\ UNCHANGED <<currentNote, heldNotesRef, activeNotes, noteHistory, padMap>>
       /\ OnIndexes(out') = {}
       /\ OffIndexes(out') = {}]_vars

\* C25 witness: a control-change on a mapped controller wrote a synth setting.
C25_Witness ==
  /\ lastOp.op = "cc"
  /\ settings # InitialSettings
  /\ currentNote = InitialNote
  /\ Len(noteHistory) = 1
  /\ out = << >>

\* The kinds of handled event a decoded message can become.
NoteOnOps == {"padon", "padlearn", "padon-unmapped"}
NoteOffOps == {"padoff", "padoff-unmapped"}
AppVars == <<noteVars, padVars, ccVars, muteVars, deviceVars, velVars, synthVars, timers>>

\* C26: an inbound message (status, data1, data2) is decoded by its command
\* nibble alone: 0x9n with data2 > 0 is handled as the note-on of data1 at
\* velocity data2; 0x8n, or 0x9n with data2 = 0, as the note-off of data1; 0xBn
\* as the control change of controller data1 to value data2; every other
\* command is ignored and changes no state.  The channel nibble n never matters.
C26_MessageDecoding ==
  [][\A s \in StatusBytes, d1 \in DecodeData1, d2 \in DecodeData2 :
       onMessage(s, d1, d2) =>
         LET nibble == s \div 16
         IN /\ (nibble = 9 /\ d2 > 0) =>
                 /\ lastOp'.op \in NoteOnOps
                 /\ lastMidiIn' = [note |-> d1, vel |-> d2]
                 /\ handleMidiInput(d1, d2, TRUE)
            /\ (nibble = 8 \/ (nibble = 9 /\ d2 = 0)) =>
                 /\ lastOp'.op \in NoteOffOps
                 /\ lastOp'.key = PadLabel(d1)
                 /\ handleMidiInput(d1, d2, FALSE)
            /\ nibble = 11 =>
                 /\ lastOp'.op \in CcOps
                 /\ lastOp'.note = d1
                 /\ handleCcInput(d1, d2)
            /\ nibble \notin {8, 9, 11} =>
                 /\ lastOp'.op = "midi-ignored"
                 /\ UNCHANGED AppVars
                 /\ out' = << >>]_vars

\* C26 witness: a message of another command arrived while a pad note was held
\* and was ignored.
C26_Witness ==
  /\ lastOp.op = "midi-ignored"
  /\ steps = 2
  /\ MapHas(heldNotesRef, PadLabel(43))
  /\ Len(noteHistory) = 2

\* The name carries this digit as a port index: the digit, then the first
\* character that is not a space is '-' or ':'.
MarksPort(name, digit) ==
  /\ Len(name) >= 2
  /\ name[1] = digit
  /\ LET rest == {i \in 2..Len(name) : name[i] # " "}
     IN rest # {} /\ \E i \in rest : name[i] \in {"-", ":"} /\ \A j \in rest : i <= j
\* id is the device the preference rule names in a non-empty list.
IsPreferred(list, id) ==
  \E i \in 1..Len(list) :
    /\ list[i].id = id
    /\ IF \E j \in 1..Len(list) : MarksPort(list[j].name, "1")
         THEN /\ MarksPort(list[i].name, "1")
              /\ \A j \in 1..(i - 1) : ~MarksPort(list[j].name, "1")
         ELSE IF \E j \in 1..Len(list) : ~MarksPort(list[j].name, "2")
                THEN /\ ~MarksPort(list[i].name, "2")
                     /\ \A j \in 1..(i - 1) : MarksPort(list[j].name, "2")
                ELSE i = 1

\* C27: for every non-empty ordered list of outputs pickPreferredOutput returns
\* the first device whose name marks port 1, else the first device whose name
\* is not prefixed as port 2, else the first device of the list; it returns
\* null for the empty list only.  The output chosen when access is granted,
\* and the output chosen when the selection is found missing, is that device.
C27_PreferredOutputRule ==
  [][(midiOutputs' # midiOutputs \/ midiAccessRef' # midiAccessRef) =>
       LET list == midiOutputs'
           picked == pickPreferredOutput(list)
       IN /\ picked = NullId <=> list = << >>
          /\ list # << >> => IsPreferred(list, picked)
          /\ (list # << >> /\ (~midiAccessRef \/ selectedOutputRef \notin PortIds(list))) =>
               /\ selectedOutput' = picked
               /\ IsPreferred(list, selectedOutput')]_vars

\* C27 witness: the selected Synth port was removed from a list that held a
\* port-2 device before two port-1 devices: the first port-1 device was chosen.
C27_Witness ==
  /\ Len(midiOutputs) = 3
  /\ midiOutputs[1].id = "out-e"
  /\ midiOutputs[2].id = "out-d"
  /\ midiOutputs[3].id = "out-a"
  /\ selectedOutputRef = "out-c"
  /\ selectedOutput = "out-d"

\* C28 (as claimed): on a change of the device list the selection is left
\* unchanged when the selected output is still in the new list, and otherwise
\* becomes pickPreferredOutput(new list) when that list is not empty and is left
\* unchanged when it is empty; so after a change to a non-empty list the
\* selected output is a member of the list.
C28_HotPlugRevalidation ==
  [][ports' # ports =>
       /\ selectedOutput' =
            IF selectedOutput \in PortIds(ports') THEN selectedOutput
            ELSE IF ports' # << >> THEN pickPreferredOutput(ports')
            ELSE selectedOutput
       /\ ports' # << >> => selectedOutput' \in PortIds(ports')]_vars

\* C29: the note history is append-only and bounded: a key press, a mapped pad
\* note-on, a pointer press and an octave jump each append exactly one entry,
\* holding the new anchor, at the end; the history never holds more than 1000
\* entries, a full history loses its oldest entry and keeps the order of the
\* others; no other event changes the history.
C29_HistoryAppendOnlyBounded ==
  [][/\ Handled(TriggerOps) =>
          /\ Len(noteHistory') = (IF Len(noteHistory) < 1000
                                    THEN Len(noteHistory) + 1 ELSE 1000)
          /\ noteHistory'[Len(noteHistory')].note = currentNote'
          /\ \A i \in 1..(Len(noteHistory') - 1) :
               noteHistory'[i] =
                 noteHistory[IF Len(noteHistory) < 1000 THEN i ELSE i + 1]
     /\ ~Handled(TriggerOps) => UNCHANGED noteHistory
     /\ Len(noteHistory') <= 1000]_vars

\* C29 witness: an octave jump was appended to a full history: the initial
\* entry is gone, 1000 entries remain and the last one holds the new anchor.
C29_Witness ==
  /\ lastOp.op = "jump"
  /\ Len(noteHistory) = 1000
  /\ noteHistory[1].time > 1
  /\ noteHistory[1000].note = 72
  /\ noteHistory[1000].time = steps
  /\ currentNote = 72

\* C30: the anchor is an integer of 0..127 in every reachable state, and is 60
\* until the first note trigger, whatever keyboard presses, pad note-ons,
\* pointer presses (notes 36..96) and octave jumps follow.
C30_AnchorInRange ==
  /\ currentNote \in Int
  /\ 0 <= currentNote
  /\ currentNote <= 127
  /\ steps = 0 => currentNote = 60

\* C30 witness: octave jumps took the anchor down to 0.
C30_Witness ==
  /\ lastOp.op = "jump"
  /\ lastInterval = -12
  /\ currentNote = 0
  /\ currentNoteRef = 12

\* No MIDI access has been granted, or no output device exists.
NoMidi == ~midiAccessRef \/ ports = << >>
ThrowOps == {"keydown-threw", "keyup-threw", "jump-threw"}
LastNote(history) == history[Len(history)].note

\* C31: without MIDI access, or without any output device, every keyboard
\* press and release, pointer press and release and octave jump still updates
\* anchor, registry and history and still calls the synth's playNote or
\* stopNote; no MIDI send is attempted and no handler raises an error.
C31_DegradesWithoutMidi ==
  [][(NoMidi /\ steps' = steps + 1) =>
       /\ lastOp'.op \notin ThrowOps
       /\ Sends(out') = << >>
       /\ lastOp'.op = "keydown" =>
            LET n == Clamp(currentNoteRef + KEY_MAP[lastOp'.key], 0, 127)
            IN /\ currentNote' = n
               /\ MapGet(heldNotesRef', lastOp'.key) = n
               /\ Len(noteHistory') = Len(noteHistory) + 1
               /\ LastNote(noteHistory') = n
               /\ out' # << >>
               /\ out'[Len(out')].fn = "playNote"
               /\ out'[Len(out')].note = n
       /\ (lastOp'.op = "keyup" /\ MapHas(heldNotesRef, lastOp'.key)) =>
            /\ ~MapHas(heldNotesRef', lastOp'.key)
            /\ out' = <<SynthCall("stopNote", MapGet(heldNotesRef, lastOp'.key), 0)>>
       /\ lastOp'.op = "click" =>
            /\ currentNote' = lastOp'.note
            /\ MapGet(heldNotesRef', MouseLabel) = lastOp'.note
            /\ LastNote(noteHistory') = lastOp'.note
            /\ out' # << >>
            /\ out'[Len(out')].fn = "playNote"
            /\ out'[Len(out')].note = lastOp'.note
       /\ lastOp'.op = "pointer-release" =>
            /\ out' = <<SynthCall("stopNote", lastOp'.note, 0)>>
            /\ MapGet(heldNotesRef, MouseLabel) = lastOp'.note =>
                 ~MapHas(heldNotesRef', MouseLabel)
       /\ lastOp'.op = "jump" =>
            LET n == Clamp(currentNoteRef + lastInterval', 0, 127)
            IN /\ currentNote' = n
               /\ LastNote(noteHistory') = n
               /\ Len(out') = 1
               /\ out'[1].fn = "playNote"
               /\ out'[1].note = n]_vars

\* C31 witness: access was granted but no output device exists; key A was
\* pressed and released, and the release called stopNote(56) and sent nothing.
C31_Witness ==
  /\ midiAccessRef
  /\ ports = << >>
  /\ lastOp.op = "keyup"
  /\ lastOp.key = "A"
  /\ out = <<SynthCall("stopNote", 56, 0)>>
  /\ heldNotesRef = << >>
  /\ currentNote = 56

\* The selected output has disappeared from the device list.
OutputLost == selectedOutputRef # NullId /\ selectedOutputRef \notin PortIds(ports)
SynthNotes(o, fn) == {o[i].note : i \in {j \in 1..Len(o) : o[j].fn = fn}}

\* C32 (as claimed): once the external MIDI connection is lost, by the selected
\* output leaving the device list or by a failing send, the synth path is not
\* affected: a key press still releases the note its key held, sounds the new
\* note on the synth and writes registry and anchor; a key release still stops
\* the note on the synth and clears the registry entry; an octave jump still
\* sounds its note and schedules its release.
C32_SynthPathIsolated ==
  [][(steps' = steps + 1 /\ (OutputLost \/ lastOp'.op \in ThrowOps)) =>
       /\ lastOp'.op \in {"keydown", "keydown-threw"} =>
            LET k == lastOp'.key
                n == Clamp(currentNoteRef + KEY_MAP[k], 0, 127)
            IN /\ currentNote' = n
               /\ MapGet(heldNotesRef', k) = n
               /\ n \in SynthNotes(out', "playNote")
               /\ MapHas(heldNotesRef, k) =>
                    MapGet(heldNotesRef, k) \in SynthNotes(out', "stopNote")
       /\ (lastOp'.op \in {"keyup", "keyup-threw"} /\ MapHas(heldNotesRef, lastOp'.key)) =>
            /\ ~MapHas(heldNotesRef', lastOp'.key)
            /\ MapGet(heldNotesRef, lastOp'.key) \in SynthNotes(out', "stopNote")
       /\ lastOp'.op \in {"jump", "jump-threw"} =>
            /\ currentNote' \in SynthNotes(out', "playNote")
            /\ timers' = Append(timers, currentNote')]_vars

\* C33: an octave jump to note n sounds n, adds no entry to the held-note
\* registry or the active notes and schedules one deferred release; the
\* deferred release, when it fires, emits the note-off of that n whether or not
\* a source holds n by then.
C33_OctaveJumpDeferredRelease ==
  [][/\ Handled({"jump"}) =>
          /\ SoundedNotes(out') = {currentNote'}
          /\ UNCHANGED <<heldNotesRef, activeNotes>>
          /\ timers' = Append(timers, currentNote')
     /\ (lastOp'.op = "jump-release" /\ timers' # timers) =>
          /\ timers' = Tail(timers)
          /\ out' # << >>
          /\ OnIndexes(out') = {}
          /\ SilencedNotes(out') = {Head(timers)}
          /\ UNCHANGED <<heldNotesRef, activeNotes>>]_vars

\* C33 witness: a pad pressed the note of an octave jump after the jump; the
\* deferred release has fired and emitted the note-off of that note, which the
\* pad still holds.
C33_Witness ==
  /\ lastOp.op = "jump-release"
  /\ timers = << >>
  /\ SilencedNotes(out) = {lastOp.note}
  /\ Holders(heldNotesRef, lastOp.note) # {}
  /\ lastOp.note \in Range(activeNotes)
  /\ lastOp.note \notin {v.note : v \in activeOscillators}

\* The release events of a source, and the sources other than k that hold n.
ReleaseOps == {"keyup", "padoff", "pointer-release"}
OtherHolders(held, k, n) == Holders(held, n) \ {k}

\* C34: when two different source keys hold the same note n and one of them is
\* released, the note-off of n is emitted at once although the other source's
\* registry entry for n remains and the active notes still contain n.
C34_SharedNoteReleaseUnconditional ==
  [][(/\ Handled(ReleaseOps)
      /\ MapHas(heldNotesRef, lastOp'.key)
      /\ lastOp'.op = "pointer-release" => lastOp'.note = MapGet(heldNotesRef, lastOp'.key)
      /\ OtherHolders(heldNotesRef, lastOp'.key, MapGet(heldNotesRef, lastOp'.key)) # {}) =>
       LET k == lastOp'.key
           n == MapGet(heldNotesRef, k)
       IN /\ out' # << >>
          /\ SilencedNotes(out') = {n}
          /\ ~MapHas(heldNotesRef', k)
          /\ \A other \in OtherHolders(heldNotesRef, k, n) : MapGet(heldNotesRef', other) = n
          /\ n \in Range(activeNotes')]_vars

\* C34 witness: two sources held the same note; one was released and the
\* note-off of the note was emitted while the other source still holds it.
C34_Witness ==
  /\ lastOp.op \in ReleaseOps
  /\ ~MapHas(heldNotesRef, lastOp.key)
  /\ SilencedNotes(out) = {lastOp.note}
  /\ Holders(heldNotesRef, lastOp.note) # {}
  /\ lastOp.note \in Range(activeNotes)

\* C35: every inbound note-on becomes the last-received record, whatever the
\* pad map and the learn targets; while the handler finds a pad-learn target
\* armed, an inbound note-off or control change changes neither the pad map nor
\* the pad-learn target; while it finds a CC-learn target armed and no pad-learn
\* target, an inbound note-on or note-off changes neither the CC map nor the
\* CC-learn target and does its normal pad work.
C35_IrrelevantEventsRecordedOnly ==
  [][/\ \A n \in PadNotes, v \in PadVelocities :
          handleMidiInput(n, v, TRUE) => lastMidiIn' = [note |-> n, vel |-> v]
     /\ (Handled(NoteOffOps \cup CcOps) /\ midiLearnTargetRef # Null) =>
          UNCHANGED <<padMap, midiLearnTarget>>
     /\ (Handled(NoteOnOps \cup NoteOffOps) /\ midiLearnTargetRef = Null
           /\ ccLearnTargetRef # NullId) =>
          /\ UNCHANGED <<ccMap, ccLearnTarget>>
          /\ lastOp'.op # "padlearn"
          /\ UNCHANGED <<padMap, midiLearnTarget>>
          /\ lastOp'.op = "padon" =>
               /\ currentNote' =
                    Clamp(currentNoteRef + PadLookup(padMapRef, lastMidiIn'.note), 0, 127)
               /\ SoundedNotes(out') = {currentNote'}
               /\ MapGet(heldNotesRef', lastOp'.key) = currentNote'
          /\ lastOp'.op = "padoff" =>
               /\ ~MapHas(heldNotesRef', lastOp'.key)
               /\ MapHas(heldNotesRef, lastOp'.key) =>
                    SilencedNotes(out') = {MapGet(heldNotesRef, lastOp'.key)}]_vars

\* C35 witness: with the CC-learn target armed, the note-on of mapped pad 50 was
\* recorded and played an octave up, and the CC-learn target is still armed.
C35_Witness ==
  /\ lastOp.op = "padon"
  /\ ccLearnTargetRef # NullId
  /\ ccLearnTarget = ccLearnTargetRef
  /\ midiLearnTarget = Null
  /\ lastMidiIn.note = 50
  /\ currentNote = 72
  /\ SoundedNotes(out) = {72}

\* The voices the synth has registered for a note, and the notes the synth
\* was called with in the step.
VoicesOf(osc, note) == {v \in osc : v.note = note}
PlayedNotes(o) == SynthNotes(o, "playNote")
StoppedNotes(o) == SynthNotes(o, "stopNote")

\* C36: the synth keeps at most one active voice per note number; playNote for
\* a note that is already sounding stops the previous voice and leaves exactly
\* the new voice registered for the note; stopNote for a note that is not
\* sounding changes nothing.
C36_SynthOneVoicePerNote ==
  [][/\ \A v, w \in activeOscillators' : v.note = w.note => v = w
     /\ <<steps, out, activeOscillators>>' # <<steps, out, activeOscillators>> =>
        /\ \A n \in PlayedNotes(out') :
             /\ VoicesOf(activeOscillators', n) = {[note |-> n, id |-> steps']}
             /\ VoicesOf(activeOscillators, n) \cap activeOscillators' = {}
        /\ \A n \in StoppedNotes(out') \ PlayedNotes(out') :
             /\ VoicesOf(activeOscillators', n) = {}
             /\ (VoicesOf(activeOscillators, n) = {} /\ PlayedNotes(out') = {}) =>
                  activeOscillators' = activeOscillators]_vars

\* C36 witness: a second source pressed a note that was already sounding; the
\* synth holds the one voice the second press created.
C36_Witness ==
  /\ lastOp.op \in TriggerOps
  /\ Cardinality(Holders(heldNotesRef, lastOp.note)) = 2
  /\ PlayedNotes(out) = {lastOp.note}
  /\ VoicesOf(activeOscillators, lastOp.note) = {[note |-> lastOp.note, id |-> steps]}
  /\ steps >= 2

\* C38 (as claimed): after every pointer release event the pointer source
\* "__mouse__" holds no note in the registry, whichever note the release is
\* reported for, and the note the pointer held has been given its note-off.
C38_PointerReleaseClearsPointer ==
  [][Handled({"pointer-release"}) =>
       /\ ~MapHas(heldNotesRef', MouseLabel)
       /\ MapHas(heldNotesRef, MouseLabel) =>
            out' = noteOff(MapGet(heldNotesRef, MouseLabel))]_vars

\* C37 (as claimed): when a source is released, every channel that received
\* the MIDI note-on of its note has received the matching note-off: once the
\* release has been handled and no other source holds the note, no connected
\* port is left sounding it on any channel, whatever channel selections, mute
\* toggles and output selections were made while the note was held.
C37_MatchedNoteOff ==
  (lastOp.op \in {"keyup", "padoff"} /\ Holders(heldNotesRef, lastOp.note) = {}) =>
    \A t \in sounding : t.dev \in PortIds(ports) => t.note # lastOp.note

\* C39 (as claimed): rapid mode implies an armed target: in every reachable
\* state, if rapid learn is active then the pad-learn target is not null, for
\* every sequence of Rapid Learn start / stop, per-row Learn toggles, Cancel
\* Learn and inbound note-ons.
C39_RapidImpliesArmedTarget ==
  rapidLearnActive => midiLearnTarget # Null

\* C40: in every reachable state the note history is not empty and the note of
\* its last entry is the current anchor; anchor and history are only ever
\* updated together, by one note-triggering handler.
C40_HistoryEndsAtAnchor ==
  /\ [](noteHistory # << >> /\ LastNote(noteHistory) = currentNote)
  /\ [][(currentNote' # currentNote \/ noteHistory' # noteHistory) =>
          /\ Handled(TriggerOps)
          /\ currentNote' = lastOp'.note
          /\ noteHistory'[Len(noteHistory')] = [note |-> currentNote', time |-> steps']]_vars

\* C40 witness: three triggers of different notes, the last one a pointer
\* press, have each moved the anchor and added an entry.
C40_Witness ==
  /\ lastOp.op = "click"
  /\ Len(noteHistory) = 4
  /\ currentNote = lastOp.note
  /\ LastNote(noteHistory) = currentNote
  /\ noteHistory[3].note # currentNote
  /\ noteHistory[2].note # noteHistory[3].note

====
